---------------------------- MODULE Spec2Model ----------------------------
(***************************************************************************)
(* Model of the document-generation tools of openlabollioules/tools:       *)
(*   src/generate_docx.py          DOCX generator, heading levels 1..3     *)
(*   src/src/generate_docx.py      DOCX generator, heading levels 1..5     *)
(*   src/generate_pptx.py          PPTX generator                          *)
(*   src/src/generate_excel.py     XLSX generator                          *)
(*   src/src/tool_generate_basic_file.py   plain file tool                 *)
(*                                                                         *)
(* A Python string is a sequence of one-character strings.  A document is  *)
(* the sequence of the paragraphs of its body together with the set of     *)
(* the style names it defines.                                             *)
(***************************************************************************)
EXTENDS Integers, Sequences, FiniteSets, TLC

VARIABLES
    hop,      \* direct calls: the routine applied ("init" before the call)
    hargs,    \* direct calls: the arguments of the call
    hpre,     \* direct calls: the document before the call
    hdoc,     \* direct calls: the document after the call
    hres,     \* direct calls: how the call ended
    tool,     \* the generator: the Tools instance that serves the requests
    self,     \* the attributes of the Tools instance a request assigns
    fs,       \* the files of FILES_DIR
    pc,       \* one request: the position of the entry point
    req,      \* one request: its arguments (json_data, the status sink, ...)
    doc,      \* one request: the document, presentation or workbook
    idx,      \* one request: the index of the loop over the input entries
    events,   \* one request: the events delivered to the status sink
    out,      \* one request: how the entry point ended
    log,      \* one request: the calls made on the document, in order
    cpc,      \* two requests in flight: the position of each
    creq,     \* two requests in flight: the arguments of each
    cloc      \* two requests in flight: the local variables of each

hvars == <<hop, hargs, hpre, hdoc, hres>>

rvars == <<tool, self, fs, pc, req, doc, idx, events, out, log>>

cvars == <<cpc, creq, cloc>>

vars == <<hop, hargs, hpre, hdoc, hres, tool, self, fs, pc, req, doc, idx,
          events, out, log, cpc, creq, cloc>>

-----------------------------------------------------------------------------
(* Bounds of the model.                                                    *)

\* longest single line handed to the line parsers
MaxLineLen == 7
\* longest content string handed to add_paragraph_text / add_content_slide
MaxContentLen == 5

-----------------------------------------------------------------------------
(* Characters and strings.                                                 *)

SP == " "
STAR == "*"
\* U+2022, the second bullet marker
BULLET == "U+2022"
LETTER == "a"
\* "\n"
LF == "LF"

LineChars == {SP, STAR, BULLET, LETTER}
ContentChars == {SP, STAR, LETTER, LF}

\* str.isspace for the characters of the model
IsSpace(c) == c \in {SP, LF}

StrOfLen(chars, n) == [1..n -> chars]
StrUpTo(chars, n) == UNION {StrOfLen(chars, k) : k \in 0..n}

\* str.startswith
StartsWith(s, prefix) ==
    /\ Len(s) >= Len(prefix)
    /\ SubSeq(s, 1, Len(prefix)) = prefix

\* s[n:]
Drop(s, n) == SubSeq(s, n + 1, Len(s))

\* str.strip() is empty exactly when every character is whitespace
StripIsEmpty(s) == \A i \in 1..Len(s) : IsSpace(s[i])

\* str.split("\n"): the pieces between line feeds, empty pieces kept
RECURSIVE Split(_)
Split(s) ==
    IF \A i \in 1..Len(s) : s[i] /= LF
    THEN <<s>>
    ELSE LET k == CHOOSE i \in 1..Len(s) :
                      /\ s[i] = LF
                      /\ \A j \in 1..(i - 1) : s[j] /= LF
         IN <<SubSeq(s, 1, k - 1)>> \o Split(Drop(s, k))

FourSpaces == <<SP, SP, SP, SP>>
MarkerStar == <<STAR, SP>>
MarkerBullet == <<BULLET, SP>>


-----------------------------------------------------------------------------
(* The document object of the office library (python-docx).                *)
(* Document.add_paragraph(text, style) appends the paragraph element and   *)
(* its run first and resolves the style name last: a name the document     *)
(* does not define raises KeyError with the unstyled paragraph already in  *)
(* the body.                                                               *)

NoStyle == "(none)"
NoExc == "none"
None == <<"None">>
Unset == "unset"

GEN3 == "docx3"
GEN5 == "docx5"

\* a paragraph: its text, its style, its indents in points, its alignment,
\* what its run holds besides text (a page break, the markers of a field),
\* and the phase and input entry that wrote it
Para(text, style, by) ==
    [text |-> text, style |-> style, left_indent |-> Unset,
     first_line_indent |-> Unset, alignment |-> "inherit",
     kind |-> "text", fields |-> <<>>, by |-> by]

Result(d, exc) == [doc |-> d, exc |-> exc]

AddParagraph(d, text, style, by) ==
    LET t == IF text = None THEN <<>> ELSE text
    IN IF style = NoStyle \/ style \in d.styles
       THEN Result([d EXCEPT !.paras = Append(@, Para(t, style, by))], NoExc)
       ELSE Result([d EXCEPT !.paras = Append(@, Para(t, NoStyle, by))],
                   "KeyError")

\* assignments to the paragraph object the last add_paragraph returned
SetLast(d, field, value) ==
    [d EXCEPT !.paras[Len(d.paras)] = [@ EXCEPT ![field] = value]]

\* the style names of HelpFunctions.styles
StyleName(gen, role) ==
    IF gen = GEN3
    THEN CASE role = "title" -> "Title"
           [] role = "heading1" -> "Heading 1"
           [] role = "heading2" -> "Heading 2"
           [] role = "heading3" -> "Heading 3"
           [] role = "normal" -> "Normal"
           [] role = "subtitle" -> "Subtitle"
           [] role = "toc" -> "TOC Heading"
    ELSE CASE role = "title" -> "Section"
           [] role = "subtitle" -> "Normal"
           [] role = "heading1" -> "Titre1-Numerote"
           [] role = "heading2" -> "Titre2-Numerote"
           [] role = "heading3" -> "Titre3-Numerote"
           [] role = "heading4" -> "Heading 4"
           [] role = "heading5" -> "Heading 5"
           [] role = "normal" -> "Normal"
           [] role = "paragraphe_standard" -> "Paragraphe standard"
           [] role = "section" -> "Section"
           [] role = "caption" -> "Caption"
           [] role = "table_of_figures" -> "table of figures"

\* a footer nothing was written to
NoFooter == [text |-> <<>>, fields |-> <<>>, alignment |-> "inherit"]

\* the styles setup_document_styles looks up: a document without one of
\* them never reaches a rendering routine
SetupStyles ==
    {"Normal", "Heading 1", "Heading 2", "Heading 3", "Title", "Subtitle"}

\* the blank Document() of the library
BlankStyles ==
    SetupStyles \cup {"Heading 4", "Heading 5", "List Bullet", "TOC Heading",
                      "Caption"}

\* a template carrying the custom styles of templates_new.docx
CustomStyles ==
    SetupStyles \cup {"Section", "Titre1-Numerote", "Titre2-Numerote",
                      "Titre3-Numerote", "Heading 4", "Heading 5",
                      "Paragraphe standard", "List Bullet", "Caption",
                      "table of figures"}

\* the blank document, the custom template, and a template that defines the
\* built-in styles of setup_document_styles only
StyleSets == {BlankStyles, CustomStyles, SetupStyles}

\* a document without content: its styles, its body, and the footer of
\* each of its (document-structure) sections
EmptyDoc(styles) ==
    [styles |-> styles, paras |-> <<>>, footers |-> <<NoFooter>>]

\* the provenance of a paragraph written by a direct call of a routine
Direct == [ph |-> "call", idx |-> 0]

-----------------------------------------------------------------------------
(* The indentation-bullet parser: one line.                                *)

ParseLineNoSpaceMut(line) ==
    LET RECURSIVE Units(_, _)
        Units(l, n) ==
            IF StartsWith(l, FourSpaces) THEN Units(Drop(l, 4), n + 1)
            ELSE [line |-> l, level |-> n]
        u == Units(line, 0)
    IN IF (u.line /= <<>> /\ u.line[1] = STAR)
          \/ (u.line /= <<>> /\ u.line[1] = BULLET)
       THEN [level |-> u.level, bullet |-> TRUE, text |-> Drop(u.line, 2)]
       ELSE [level |-> u.level, bullet |-> FALSE, text |-> u.line]

\* add_paragraph_text, the body of the loop up to the bullet test
ParseLineDocx(line) ==
    LET RECURSIVE Units(_, _)
        Units(l, n) ==
            IF StartsWith(l, FourSpaces) THEN Units(Drop(l, 4), n + 1)
            ELSE [line |-> l, level |-> n]
        u == Units(line, 0)
    IN IF StartsWith(u.line, MarkerStar) \/ StartsWith(u.line, MarkerBullet)
       THEN [level |-> u.level, bullet |-> TRUE, text |-> Drop(u.line, 2)]
       ELSE [level |-> u.level, bullet |-> FALSE, text |-> u.line]

\* add_content_slide, the body of the loop up to the bullet test
ParseLinePptx(line) ==
    LET RECURSIVE Spacing(_, _)
        Spacing(l, n) ==
            IF StartsWith(l, FourSpaces) THEN Spacing(Drop(l, 4), n + 1)
            ELSE [line |-> l, spacing |-> n]
        u == Spacing(line, 0)
        need_bullet == StartsWith(u.line, MarkerStar)
                           \/ StartsWith(u.line, MarkerBullet)
    IN [level |-> u.spacing, bullet |-> need_bullet,
        text |-> IF need_bullet THEN Drop(u.line, 2) ELSE u.line]

-----------------------------------------------------------------------------
(* HelpFunctions of the two DOCX generators.  Every routine returns the    *)
(* document it leaves and the exception that ended it (NoExc: it returned).*)

\* try: add_paragraph(text, style=first) except: add_paragraph(text2, style=second)
TryStyles(d, text, first, text2, second, by) ==
    LET r == AddParagraph(d, text, first, by)
    IN IF r.exc = NoExc THEN r ELSE AddParagraph(r.doc, text2, second, by)

add_title_NoCheckMut(gen, d, title, by) ==
    LET r == AddParagraph(d, title, StyleName(gen, "title"), by)
    IN IF r.exc /= NoExc THEN r
       ELSE Result(SetLast(r.doc, "alignment", "CENTER"), NoExc)

add_title(gen, d, title, by) ==
    IF title = None THEN Result(d, "AttributeError")
    ELSE IF StripIsEmpty(title) THEN Result(d, "ValueError")
    ELSE LET r == AddParagraph(d, title, StyleName(gen, "title"), by)
         IN IF r.exc /= NoExc THEN r
            ELSE Result(SetLast(r.doc, "alignment", "CENTER"), NoExc)

\* the highest heading level of a generator
MaxHeadingLevel(gen) == IF gen = GEN3 THEN 3 ELSE 5

HeadingRole(level) ==
    CASE level = 1 -> "heading1"
      [] level = 2 -> "heading2"
      [] level = 3 -> "heading3"
      [] level = 4 -> "heading4"
      [] level = 5 -> "heading5"

add_heading(gen, d, heading, level, by) ==
    IF heading = None THEN Result(d, "AttributeError")
    ELSE IF StripIsEmpty(heading) THEN Result(d, "ValueError")
    ELSE IF level < 1 \/ level > MaxHeadingLevel(gen) THEN Result(d, "ValueError")
    ELSE IF gen = GEN3
         THEN AddParagraph(d, heading, StyleName(gen, HeadingRole(level)), by)
         ELSE LET r == AddParagraph(d, heading,
                                    StyleName(gen, HeadingRole(level)), by)
              IN IF r.exc = NoExc THEN r
                 ELSE \* p = doc.add_paragraph(heading); p.style = doc.styles['Normal']
                      LET q == AddParagraph(r.doc, heading, NoStyle, by)
                      IN IF "Normal" \in d.styles
                         THEN Result(SetLast(q.doc, "style", "Normal"), NoExc)
                         ELSE Result(q.doc, "KeyError")

\* the body of the loop of add_paragraph_text: one line
RenderLine(gen, d, line, by) ==
    LET pl == ParseLineDocx(line)
        r == IF pl.bullet
             THEN IF gen = GEN3
                  THEN AddParagraph(d, pl.text, "List Bullet", by)
                  ELSE TryStyles(d, pl.text, "List Bullet",
                                 <<BULLET, SP>> \o pl.text, "Normal", by)
             ELSE IF gen = GEN3
                  THEN AddParagraph(d, pl.text, NoStyle, by)
                  ELSE TryStyles(d, pl.text, "Paragraphe standard",
                                 pl.text, "Normal", by)
    IN IF r.exc /= NoExc THEN r
       ELSE IF pl.bullet
            THEN Result(SetLast(r.doc, "left_indent", pl.level * 18), NoExc)
            ELSE Result(SetLast(IF pl.level > 0
                                THEN SetLast(r.doc, "left_indent", pl.level * 18)
                                ELSE r.doc,
                                "alignment", "JUSTIFY"), NoExc)

RECURSIVE RenderLines(_, _, _, _)
RenderLines(gen, d, lines, by) ==
    IF lines = <<>> THEN Result(d, NoExc)
    ELSE LET r == RenderLine(gen, d, Head(lines), by)
         IN IF r.exc /= NoExc THEN r
            ELSE RenderLines(gen, r.doc, Tail(lines), by)

add_paragraph_text(gen, d, content, by) ==
    IF content = None THEN Result(d, "AttributeError")
    ELSE IF StripIsEmpty(content) THEN Result(d, NoExc)
    ELSE RenderLines(gen, d, Split(content), by)

\* the 5-level generator: try the style "Section"; except: add_paragraph(title)
\* and header.runs[0], which needs a run (a paragraph of empty text has none)
add_section_header(gen, d, title, by) ==
    IF gen = GEN3
    THEN AddParagraph(d, title, StyleName(gen, "heading1"), by)
    ELSE LET r == AddParagraph(d, title, StyleName(gen, "section"), by)
         IN IF r.exc = NoExc THEN r
            ELSE LET q == AddParagraph(r.doc, title, NoStyle, by)
                 IN IF title /= <<>> THEN q ELSE Result(q.doc, "IndexError")

RECURSIVE AddReferences(_, _, _)
AddReferences(d, references, by) ==
    IF references = <<>> THEN d
    ELSE AddReferences(
             SetLast(SetLast(AddParagraph(d, Head(references), NoStyle, by).doc,
                             "first_line_indent", -36),
                     "left_indent", 36),
             Tail(references), by)

add_bibliography(gen, d, references, by) ==
    IF references = <<>> THEN Result(d, NoExc)
    ELSE LET h == add_section_header(gen, d, <<"Bibliographie / References">>, by)
         IN IF h.exc /= NoExc THEN h
            ELSE Result(AddReferences(h.doc, references, by), NoExc)

\* doc.add_page_break()
AddPageBreak(d, by) ==
    SetLast(AddParagraph(d, <<>>, NoStyle, by).doc, "kind", "page_break")

\* a value Python takes as true: a string that is neither None nor empty
Truthy(s) == s /= None /\ s /= <<>>

\* add_cover_page: title and subtitle paragraphs, with the manual-formatting
\* branch of the 5-level generator (title_para.runs[0] needs a run)
CoverStyled(gen, d, text, style, by) ==
    IF gen = GEN3
    THEN AddParagraph(d, text, style, by)
    ELSE LET r == AddParagraph(d, text, style, by)
         IN IF r.exc = NoExc THEN r
            ELSE LET q == AddParagraph(r.doc, text, NoStyle, by)
                 IN IF Truthy(text) THEN q ELSE Result(q.doc, "IndexError")

add_cover_page(gen, d, title, subtitle, author, date, by) ==
    LET d0 == IF Len(d.paras) > 0 /\ ~StripIsEmpty(d.paras[1].text)
              THEN AddPageBreak(d, by) ELSE d
        d1 == AddParagraph(AddParagraph(d0, <<>>, NoStyle, by).doc,
                           <<>>, NoStyle, by).doc
        t == CoverStyled(gen, d1, title, "Title", by)
        d2 == SetLast(t.doc, "alignment", "CENTER")
        st == IF Truthy(subtitle)
              THEN CoverStyled(gen, d2, subtitle, "Subtitle", by)
              ELSE Result(d2, NoExc)
        d3 == IF Truthy(subtitle) THEN SetLast(st.doc, "alignment", "CENTER")
              ELSE d2
        d4 == IF Truthy(author)
              THEN SetLast(AddParagraph(d3, <<"Auteur: ">> \o author, NoStyle, by).doc,
                           "alignment", "CENTER")
              ELSE d3
        d5 == IF Truthy(date)
              THEN SetLast(AddParagraph(d4, date, NoStyle, by).doc,
                           "alignment", "CENTER")
              ELSE d4
    IN IF t.exc /= NoExc THEN t
       ELSE IF st.exc /= NoExc THEN st
       ELSE Result(AddPageBreak(d5, by), NoExc)

TocField == <<"begin", "TOC", "separate", "end">>
PageField == <<"begin", "PAGE", "end">>

add_table_of_contents(gen, d, by) ==
    LET h == AddParagraph(d, <<"Table des matieres">>,
                          StyleName(gen, IF gen = GEN3 THEN "heading1"
                                         ELSE "section"), by)
    IN IF h.exc /= NoExc THEN h
       ELSE LET d1 == SetLast(h.doc, "alignment", "CENTER")
                d2 == SetLast(SetLast(AddParagraph(d1, <<>>, NoStyle, by).doc,
                                      "kind", "field"),
                              "fields", TocField)
            IN Result(AddPageBreak(d2, by), NoExc)

WriteFooters_FirstSectionMut(d) ==
    [d EXCEPT !.footers[1] =
        [text |-> <<"Page ">>, fields |-> PageField, alignment |-> "CENTER"]]

\* step 4 of generate_docx_from_json: "Page " and a PAGE field in the
\* footer of every section of the document
WriteFooters(d) ==
    [d EXCEPT !.footers =
        [k \in 1..Len(d.footers) |->
            [text |-> <<"Page ">>, fields |-> PageField,
             alignment |-> "CENTER"]]]

-----------------------------------------------------------------------------
(* HelpFunctions of the PPTX generator.  A presentation is the number of   *)
(* slide layouts of its template and the sequence of its slides.           *)

\* HelpFunctions.slide_layouts
LayoutTitleAndContent == 1
LayoutChapterTitle == 3
LayoutBasicContent == 4
LayoutFinalSlideFr == 12
LayoutFinalSlideEn == 13

\* the slide layouts of a template that holds every layout of the table
TemplateLayouts == LayoutFinalSlideEn + 1

Slide(layout, title, body, by) ==
    [layout |-> layout, title |-> title, shape1 |-> <<>>, body |-> body,
     by |-> by]

\* prs.slides.add_slide(prs.slide_layouts[index])
AddSlide(prs, index, title, body, by) ==
    IF index >= prs.nlayouts THEN Result(prs, "IndexError")
    ELSE Result([prs EXCEPT !.slides = Append(@, Slide(index, title, body, by))],
                NoExc)

add_title_slide(prs, title, author, by) ==
    IF title = None THEN Result(prs, "AttributeError")
    ELSE IF StripIsEmpty(title) THEN Result(prs, "ValueError")
    ELSE LET r == AddSlide(prs, LayoutTitleAndContent, title, <<>>, by)
         IN IF r.exc /= NoExc THEN r
            ELSE Result([r.doc EXCEPT !.slides[Len(r.doc.slides)].shape1 = author],
                        NoExc)

add_chapter_slide(prs, chapter, by) ==
    IF chapter = None THEN Result(prs, "AttributeError")
    ELSE IF StripIsEmpty(chapter) THEN Result(prs, "ValueError")
    ELSE AddSlide(prs, LayoutChapterTitle, chapter, <<>>, by)

\* _Paragraph.level of python-pptx takes 0..8 and raises ValueError for any
\* other value; the exception is told apart from the routines' own
\* ValueError by its origin
MaxParagraphLevel == 8
LevelError == "ValueError(level)"

\* the line asks for a level the paragraph refuses
LevelRefused(line) ==
    LET pl == ParseLinePptx(line)
    IN pl.bullet /\ pl.level + 1 >= 2 /\ pl.level + 2 > MaxParagraphLevel

\* the body of the loop of add_content_slide: the paragraph of one line,
\* as the loop leaves it (a refused assignment leaves the level it had)
SlideLine(line) ==
    LET pl == ParseLinePptx(line)
        RECURSIVE Pad(_)
        Pad(n) == IF n = 0 THEN <<>> ELSE <<SP, SP, SP>> \o Pad(n - 1)
    IN IF pl.bullet
       THEN [text |-> pl.text,
             level |-> IF pl.level + 1 > MaxParagraphLevel THEN 0
                       ELSE IF pl.level + 1 >= 2
                            THEN IF pl.level + 2 > MaxParagraphLevel
                                 THEN pl.level + 1 ELSE pl.level + 2
                            ELSE pl.level + 1]
       ELSE [text |-> Pad(pl.level) \o pl.text, level |-> 0]

\* for line in lines: the loop ends at the first refused level
RECURSIVE SlideLines(_)
SlideLines(lines) ==
    IF lines = <<>> THEN <<>>
    ELSE IF LevelRefused(Head(lines)) THEN <<SlideLine(Head(lines))>>
    ELSE <<SlideLine(Head(lines))>> \o SlideLines(Tail(lines))

LinesExc(lines) ==
    IF \E k \in 1..Len(lines) : LevelRefused(lines[k]) THEN LevelError
    ELSE NoExc

add_content_slide_LateCheckMut(prs, title, content, by) ==
    IF title = None \/ content = None THEN Result(prs, "AttributeError")
    ELSE IF StripIsEmpty(title) THEN Result(prs, "ValueError")
    ELSE LET r == AddSlide(prs, LayoutBasicContent, title,
                           <<[text |-> <<>>, level |-> 0]>>
                               \o SlideLines(Split(content)), by)
         IN IF StripIsEmpty(content) THEN Result(r.doc, "ValueError") ELSE r

add_content_slide(prs, title, content, by) ==
    IF title = None \/ content = None THEN Result(prs, "AttributeError")
    ELSE IF StripIsEmpty(title) THEN Result(prs, "ValueError")
    ELSE IF StripIsEmpty(content) THEN Result(prs, "ValueError")
    ELSE LET r == AddSlide(prs, LayoutBasicContent, title,
                           <<[text |-> <<>>, level |-> 0]>>
                               \o SlideLines(Split(content)), by)
         IN IF r.exc /= NoExc THEN r
            ELSE Result(r.doc, LinesExc(Split(content)))

add_final_slide(prs, language, by) ==
    IF language = "fr"
    THEN AddSlide(prs, LayoutFinalSlideFr, <<>>, <<>>, by)
    ELSE AddSlide(prs, LayoutFinalSlideEn, <<>>, <<>>, by)

EmptyPrs(n) == [nlayouts |-> n, slides |-> <<>>, template |-> <<>>]

-----------------------------------------------------------------------------
(* Direct calls of the rendering routines: the arguments are drawn from    *)
(* bounded sets, one action applies the routine.                           *)

\* highest heading level handed to add_heading (the lowest is -1)
MaxLevelArg == 6

\* most references handed to add_bibliography
MaxRefs == 2

\* reference lists: up to MaxRefs references out of two
RefArgs == UNION {[1..k -> {<<LETTER>>, <<LETTER, SP, LETTER>>}] : k \in 0..MaxRefs}

\* titles and headings: empty, blank, and two with text
TitleArgs == {<<>>, <<SP>>, <<SP, SP>>, <<LETTER>>, <<SP, LETTER>>}

\* a paragraph the template already holds
TemplatePara(text) == Para(text, "Normal", [ph |-> "template", idx |-> 0])

DocArgs ==
    {[EmptyDoc(st) EXCEPT !.paras = ps] :
        st \in StyleSets, ps \in {<<>>, <<TemplatePara(<<LETTER>>)>>}}

\* documents for the cover page: those above, two without the styles of
\* the cover, and three whose paragraphs are blank in part
CoverDocArgs ==
    DocArgs \cup {EmptyDoc(CustomStyles \ {"Title", "Subtitle"}),
                  EmptyDoc(CustomStyles \ {"Subtitle"})}
            \cup {[EmptyDoc(CustomStyles) EXCEPT !.paras = ps] :
                     ps \in {<<TemplatePara(<<SP>>)>>,
                             <<TemplatePara(<<>>), TemplatePara(<<LETTER>>)>>,
                             <<TemplatePara(<<LETTER>>), TemplatePara(<<>>)>>}}

\* presentations: one without slides, one holding a title slide
PrsArgs ==
    {EmptyPrs(TemplateLayouts),
     add_title_slide(EmptyPrs(TemplateLayouts), <<LETTER>>, <<LETTER>>,
                     [ph |-> "title", idx |-> 0]).doc}

\* slide contents: empty, blank, one line, a bullet, two lines
MaxUnits == 8

RECURSIVE Indented(_, _)
Indented(n, line) ==
    IF n = 0 THEN line ELSE FourSpaces \o Indented(n - 1, line)

\* slide contents: empty, blank, one line, a bullet, two lines, and lines
\* with and without a bullet behind up to MaxUnits units of four spaces
SlideContentArgs ==
    {<<>>, <<SP>>, <<LETTER>>, <<STAR, SP, LETTER>>, <<LETTER, LF, SP>>}
        \cup {Indented(n, <<STAR, SP, LETTER>>) : n \in 0..MaxUnits}
        \cup {Indented(n, <<BULLET, SP, LETTER>>) : n \in 0..MaxUnits}
        \cup {Indented(n, <<LETTER>>) : n \in 0..MaxUnits}
        \cup {Indented(n, <<STAR, SP, LETTER>>) \o <<LF, LETTER>> :
                 n \in 0..MaxUnits}

\* the request variables of a specification that serves no request
RIdle ==
    /\ tool = "none"
    /\ pc = "idle"
    /\ req = <<>>
    /\ doc = <<>>
    /\ idx = 0
    /\ events = <<>>
    /\ out = <<>>
    /\ fs = {}
    /\ self = <<>>
    /\ log = <<>>

\* the variables of the requests in flight, when there are none
CIdle ==
    /\ cpc = <<>>
    /\ creq = <<>>
    /\ cloc = <<>>

-----------------------------------------------------------------------------
(* One request served by a top-level entry point.  The arguments are drawn *)
(* from bounded sets; the collaborators (status sink, template file, file  *)
(* system, upload) may fail at every call.                                 *)

\* most entries (sections, slides, sheets) of a request
MaxEntries == 3

\* a key of a dict: absent, or present with a value
Absent == <<>>
Some(v) == <<v>>

\* dict.get(key, default)
Get(opt, default) == IF opt = Absent THEN default ELSE opt[1]

COLON == ":"
\* an accented capital letter
ACCENT == "U+00C9"
\* json_data.get('titre', 'document'), the word kept as one piece
DEFAULT_TITLE == <<"document">>

\* \w of the pattern [^\w\s] on a str: Unicode-aware, so letters with or
\* without an accent, digits and the underscore match; punctuation does not
IsWordChar(c) == c \notin {SP, LF, COLON, STAR, BULLET}
\* the substitution without the replacement of the spaces
RECURSIVE CleanTitle_NoReplaceMut(_)
CleanTitle_NoReplaceMut(t) ==
    IF t = <<>> THEN <<>>
    ELSE LET c == Head(t)
         IN (IF ~(IsWordChar(c) \/ IsSpace(c)) THEN <<>> ELSE <<c>>)
                \o CleanTitle_NoReplaceMut(Tail(t))

\* re.sub(r'[^\w\s]', '', title).replace(' ', '_')
RECURSIVE CleanTitle(_)
CleanTitle(t) ==
    IF t = <<>> THEN <<>>
    ELSE LET c == Head(t)
         IN (IF ~(IsWordChar(c) \/ IsSpace(c)) THEN <<>>
             ELSE IF c = SP THEN <<"_">> ELSE <<c>>) \o CleanTitle(Tail(t))

\* the request titles: absent, null, and one with punctuation, a space and
\* an accented letter
Titles == {Absent, Some(None), Some(<<LETTER, COLON, SP, ACCENT>>)}

Section(type, titre, niveau, contenu, references) ==
    [type |-> type, titre |-> titre, niveau |-> niveau,
     contenu |-> contenu, references |-> references]

SecCover == Section("page_garde", Absent, Absent, Absent, Absent)
SecHeading == Section("heading", Some(<<LETTER>>), Absent, Absent, Absent)
\* level 4: outside the range of the 3-level generator
SecHeading4 == Section("heading", Some(<<LETTER>>), Some(4), Absent, Absent)
SecContent ==
    Section("contenu", Absent, Absent, Some(<<LETTER, LF, STAR, SP, LETTER>>),
            Absent)
SecBiblio ==
    Section("bibliographie", Absent, Absent, Absent, Some(<<<<LETTER>>>>))

\* a second cover-page entry, with a title of its own
SecCover2 ==
    Section("page_garde", Some(<<LETTER, LETTER>>), Absent, Absent, Absent)

SectionArgs ==
    {SecCover, SecCover2, SecHeading, SecHeading4, SecContent, SecBiblio}

SeqUpTo(S, n) == UNION {[1..k -> S] : k \in 0..n}

\* the templates Document(self.template_path) may open: the custom
\* template, empty or holding a paragraph, and one without the built-in
\* styles
NoBuiltinStyles == CustomStyles \ {"Title", "Subtitle"}

Templates ==
    {EmptyDoc(CustomStyles),
     [EmptyDoc(CustomStyles) EXCEPT !.paras = <<TemplatePara(<<LETTER>>)>>,
                                    !.footers = <<NoFooter, NoFooter>>],
     EmptyDoc(NoBuiltinStyles)}

Running == [kind |-> "running", val |-> <<>>, cause |-> "none"]
Returned(val, cause) == [kind |-> "returned", val |-> val, cause |-> cause]
Raised(exc, cause) == [kind |-> "raised", val |-> <<exc>>, cause |-> cause]

Emit_IgnoreSinkMut(status, done, ok) ==
    events' = Append(events, [type |-> "status", status |-> status,
                              description |-> "str", done |-> done])

\* EventEmitter.emit: nothing without a sink; with one, the event is
\* delivered unless the sink raises (ok = FALSE).  The description is a
\* string the caller formats; the model keeps that it is one.
Emit(status, done, ok) ==
    IF req.sink /\ ok
    THEN events' = Append(events, [type |-> "status", status |-> status,
                                   description |-> "str", done |-> done])
    ELSE UNCHANGED events

\* the sink can raise only when there is one
SinkChoice == IF req.sink THEN BOOLEAN ELSE {TRUE}

FILES_DIR == "./tmp"

\* f"Error: {str(e)}"
ErrorColon(exc) == <<"Error: ", exc>>
\* "Error"
ErrorBare == <<"Error">>

\* the string upload_file returns; its last character is a line feed
Envelope(filename, link) ==
    <<"<source><source_id>", filename, "</source_id><source_context>", link,
      "</source_context></source>", LF>>

\* self.API_BASE_URL of the Tools instance
API_BASE_URL(t) ==
    IF t = GEN3 THEN "http://localhost:8080/api/v1/files/"
    ELSE "http://localhost:3000/api/v1/files/"

DownloadLink_NoContentMut(t, record) == <<API_BASE_URL(t), record.id>>

\* download_link = f"{self.API_BASE_URL}{doc.id}/content"
DownloadLink(t, record) == <<API_BASE_URL(t), record.id, "/content">>

\* the records the upload collaborator may return for a file: the id is its
\* own, the filename is the one handed over or one it chose
UploadRecords(filename) ==
    {[id |-> i, filename |-> f] :
        i \in {"id-1", "id-2"}, f \in {filename, <<"stored.bin">>}}

\* an entry of the log: the step taken and, for an upload that returned, the
\* record it returned
Step(s) == [step |-> s, record |-> <<>>]
Uploaded(record) == [step |-> "upload", record |-> <<record>>]

-----------------------------------------------------------------------------
(* Tools.generate_docx_from_json.                                          *)

DocxTools == {GEN3}

\* the body of the loop over json_data['sections']
RenderSection(gen, d, section, by) ==
    CASE section.type = "page_garde" -> Result(d, NoExc)
      [] section.type = "introduction" ->
            LET h == add_section_header(gen, d, <<"Introduction">>, by)
            IN IF h.exc /= NoExc THEN h
               ELSE add_paragraph_text(gen, h.doc, Get(section.contenu, <<>>), by)
      [] section.type = "heading" ->
            add_heading(gen, d, Get(section.titre, None),
                        Get(section.niveau, 1), by)
      [] section.type = "contenu" ->
            add_paragraph_text(gen, d, Get(section.contenu, <<>>), by)
      [] section.type = "conclusion" ->
            LET h == add_section_header(gen, d, <<"Conclusion">>, by)
            IN IF h.exc /= NoExc THEN h
               ELSE add_paragraph_text(gen, h.doc, Get(section.contenu, <<>>), by)
      [] section.type = "bibliographie" ->
            add_bibliography(gen, d, Get(section.references, <<>>), by)
      [] OTHER -> Result(d, NoExc)

CoverIndex_LastMut(sections) ==
    IF \E k \in 1..Len(sections) : sections[k].type = "page_garde"
    THEN CHOOSE k \in 1..Len(sections) :
             /\ sections[k].type = "page_garde"
             /\ \A j \in (k + 1)..Len(sections) : sections[j].type /= "page_garde"
    ELSE 0

\* next(s for s in sections if s.get('type') == 'page_garde'): its index,
\* 0 when there is none
CoverIndex(sections) ==
    IF \E k \in 1..Len(sections) : sections[k].type = "page_garde"
    THEN CHOOSE k \in 1..Len(sections) :
             /\ sections[k].type = "page_garde"
             /\ \A j \in 1..(k - 1) : sections[j].type /= "page_garde"
    ELSE 0

DocxRequests ==
    {[titre |-> t, sous_titre |-> Absent, auteur |-> Some(<<LETTER>>),
      date |-> Absent, inclure_table_matieres |-> toc, sections |-> ss,
      sink |-> sk] :
        t \in Titles, toc \in BOOLEAN,
        ss \in SeqUpTo(SectionArgs, MaxEntries), sk \in BOOLEAN}

\* the order in which "for entry in entries" visits a list of n entries
IterOrderReversedMut(n) == [k \in 1..n |-> n + 1 - k]

IterOrder(n) == [k \in 1..n |-> k]

\* the order of the steps inside the try block
DocxAfterTocFirstMut(phase) ==
    CASE phase = "structure" -> "toc"
      [] phase = "toc" -> "cover"
      [] phase = "cover" -> "sections"
      [] phase = "sections" -> "footer"
      [] phase = "footer" -> "complete"

DocxAfter(phase) ==
    CASE phase = "structure" -> "cover"
      [] phase = "cover" -> "toc"
      [] phase = "toc" -> "sections"
      [] phase = "sections" -> "footer"
      [] phase = "footer" -> "complete"

CoverGet_RequestFirstMut(cover, r, key) ==
    IF r[key] /= Absent THEN r[key][1]
    ELSE IF key \in DOMAIN cover THEN Get(cover[key], None)
    ELSE None

\* cover_data.get(key, json_data.get(key))
CoverGet(cover, r, key) ==
    IF key \in DOMAIN cover THEN Get(cover[key], Get(r[key], None))
    ELSE Get(r[key], None)

\* self.help_functions.add_cover_page(doc, title=cover_data.get('titre', ...), ...)
RenderCover(gen, d, r, cover, by) ==
    add_cover_page(gen, d,
                   CoverGet(cover, r, "titre"),
                   CoverGet(cover, r, "sous_titre"),
                   CoverGet(cover, r, "auteur"),
                   CoverGet(cover, r, "date"), by)

\* os.path: a file of FILES_DIR
Path(prefix, clean_title, ext) == <<FILES_DIR, "/", prefix>> \o clean_title \o <<ext>>
Basename(path) == SubSeq(path, 3, Len(path))

\* writing a file replaces what the path held
WriteFile(files, path, content) ==
    {f \in files : f.path /= path} \cup {[path |-> path, content |-> content]}

\* the return statement of a step that raised inside the try block
Fail(value, cause) ==
    /\ pc' = "done"
    /\ out' = Returned(value, cause)

\* a step that raised outside every try block
Escape(exc, cause) ==
    /\ pc' = "done"
    /\ out' = Raised(exc, cause)

\* output_path = FILES_DIR + '/' + clean_title + '.docx'
DocxOutputPath(r) == Path("", CleanTitle(Get(r.titre, DEFAULT_TITLE)), ".docx")

\* await emitter.emit("Initiating DOCX generation ...")
DocxStart ==
    /\ pc = "start" /\ tool \in DocxTools
    /\ \E ok \in SinkChoice :
          /\ Emit("in_progress", FALSE, ok)
          /\ IF ok THEN pc' = "open" /\ UNCHANGED out
             ELSE Escape("SinkError", "sink")
    /\ UNCHANGED <<tool, self, req, doc, idx, fs, log>>
    /\ UNCHANGED <<hvars, cvars>>

\* try: doc = Document(self.template_path) except: doc = Document()
DocxOpen ==
    /\ pc = "open" /\ tool \in DocxTools
    /\ \/ doc' \in Templates
       \/ doc' = EmptyDoc(BlankStyles)
    /\ log' = Append(log, Step("create"))
    /\ pc' = "styles"
    /\ UNCHANGED <<tool, self, req, idx, events, out, fs>>
    /\ UNCHANGED <<hvars, cvars>>

\* self.help_functions.setup_document_styles(doc)
DocxSetupStyles ==
    /\ pc = "styles" /\ tool \in DocxTools
    /\ IF SetupStyles \subseteq doc.styles
       THEN pc' = "structure" /\ UNCHANGED out
       ELSE Escape("KeyError", "styles")
    /\ UNCHANGED <<tool, self, req, doc, idx, events, fs, log>>
    /\ UNCHANGED <<hvars, cvars>>

\* try: await emitter.emit("Creating document structure")
DocxEmitCreating ==
    /\ pc = "structure" /\ tool \in DocxTools
    /\ \E ok \in SinkChoice :
          /\ Emit("in_progress", FALSE, ok)
          /\ IF ok THEN pc' = DocxAfter("structure") /\ UNCHANGED out
             ELSE Fail(ErrorColon("SinkError"), "sink")
    /\ UNCHANGED <<tool, self, req, doc, idx, fs, log>>
    /\ UNCHANGED <<hvars, cvars>>

\* 1. Add cover page if data is provided
DocxCover ==
    /\ pc = "cover" /\ tool \in DocxTools
    /\ LET k == CoverIndex(req.sections)
       IN IF k = 0
          THEN pc' = DocxAfter("cover") /\ UNCHANGED <<doc, out>>
          ELSE LET cover == req.sections[k]
                   r == RenderCover(tool, doc, req, cover,
                                    [ph |-> "cover", idx |-> 0])
               IN /\ doc' = r.doc
                  /\ IF r.exc = NoExc
                     THEN pc' = DocxAfter("cover") /\ UNCHANGED out
                     ELSE Fail(ErrorColon(r.exc), "render")
    /\ UNCHANGED <<tool, self, req, idx, events, fs, log>>
    /\ UNCHANGED <<hvars, cvars>>

\* 2. Add table of contents if requested
DocxToc ==
    /\ pc = "toc" /\ tool \in DocxTools
    /\ IF ~req.inclure_table_matieres
       THEN pc' = DocxAfter("toc") /\ UNCHANGED <<doc, out>>
       ELSE LET r == add_table_of_contents(tool, doc, [ph |-> "toc", idx |-> 0])
            IN /\ doc' = r.doc
               /\ IF r.exc = NoExc
                  THEN pc' = DocxAfter("toc") /\ UNCHANGED out
                  ELSE Fail(ErrorColon(r.exc), "render")
    /\ UNCHANGED <<tool, self, req, idx, events, fs, log>>
    /\ UNCHANGED <<hvars, cvars>>

\* 3. Process each section in order: one turn of the loop
DocxSection ==
    /\ pc = "sections" /\ tool \in DocxTools
    /\ idx <= Len(req.sections)
    /\ LET e == IterOrder(Len(req.sections))[idx]
           r == RenderSection(tool, doc, req.sections[e],
                              [ph |-> "section", idx |-> e])
       IN /\ doc' = r.doc
          /\ IF r.exc = NoExc
             THEN idx' = idx + 1 /\ UNCHANGED <<pc, out>>
             ELSE Fail(ErrorColon(r.exc), "render") /\ UNCHANGED idx
    /\ UNCHANGED <<tool, self, req, events, fs, log>>
    /\ UNCHANGED <<hvars, cvars>>

\* the loop over the sections is exhausted
DocxSectionsDone ==
    /\ pc = "sections" /\ tool \in DocxTools
    /\ idx > Len(req.sections)
    /\ pc' = DocxAfter("sections")
    /\ UNCHANGED <<tool, self, req, doc, idx, events, out, fs, log>>
    /\ UNCHANGED <<hvars, cvars>>

\* 4. Add page numbers to the document (footer)
DocxFooters ==
    /\ pc = "footer" /\ tool \in DocxTools
    /\ doc' = WriteFooters(doc)
    /\ pc' = DocxAfter("footer")
    /\ UNCHANGED <<tool, self, req, idx, events, out, fs, log>>
    /\ UNCHANGED <<hvars, cvars>>

\* await emitter.emit(status="complete", ..., done=True) ... except
DocxEmitComplete ==
    /\ pc = "complete" /\ tool \in DocxTools
    /\ \E ok \in SinkChoice :
          /\ Emit("complete", TRUE, ok)
          /\ IF ok THEN /\ pc' = "save"
                     /\ log' = Append(log, Step("rendered"))
                     /\ UNCHANGED out
             ELSE Fail(ErrorColon("SinkError"), "sink") /\ UNCHANGED log
    /\ UNCHANGED <<tool, self, req, doc, idx, fs>>
    /\ UNCHANGED <<hvars, cvars>>

\* clean_title = re.sub(...); output_path = ...; doc.save(output_path)
DocxSave ==
    /\ pc = "save" /\ tool \in DocxTools
    /\ LET titre == Get(req.titre, DEFAULT_TITLE)
       IN IF titre = None
          THEN Escape("TypeError", "sanitize") /\ UNCHANGED <<fs, log>>
          ELSE /\ log' = Append(log, Step("save"))
               /\ \/ /\ fs' = WriteFile(fs, DocxOutputPath(req), doc)
                     /\ pc' = "upload_emit"
                     /\ UNCHANGED out
                  \/ Escape("OSError", "save") /\ UNCHANGED fs
    /\ UNCHANGED <<tool, self, req, doc, idx, events>>
    /\ UNCHANGED <<hvars, cvars>>

\* upload_file: await emitter.emit("Getting download link for file ...")
DocxUploadEmit ==
    /\ pc = "upload_emit" /\ tool \in DocxTools
    /\ \E ok \in SinkChoice :
          /\ Emit("in_progress", FALSE, ok)
          /\ IF ok THEN pc' = "upload" /\ UNCHANGED out
             ELSE Fail(ErrorBare, "sink")
    /\ UNCHANGED <<tool, self, req, doc, idx, fs, log>>
    /\ UNCHANGED <<hvars, cvars>>

\* upload_file: the upload, the last event, the envelope; except: "Error"
DocxUpload ==
    /\ pc = "upload" /\ tool \in DocxTools
    /\ \/ /\ Fail(ErrorBare, "upload")
          /\ log' = Append(log, Step("upload"))
          /\ UNCHANGED events
       \/ \E record \in UploadRecords(Basename(DocxOutputPath(req))), ok \in SinkChoice :
             /\ log' = Append(log, Uploaded(record))
             /\ Emit("complete", TRUE, ok)
             /\ IF ok
                THEN Fail(Envelope(record.filename, DownloadLink(tool, record)),
                          "none")
                ELSE Fail(ErrorBare, "sink")
    /\ UNCHANGED <<tool, self, req, doc, idx, fs>>
    /\ UNCHANGED <<hvars, cvars>>

DocxNext ==
    \/ DocxStart
    \/ DocxOpen
    \/ DocxSetupStyles
    \/ DocxEmitCreating
    \/ DocxCover
    \/ DocxToc
    \/ DocxSection
    \/ DocxSectionsDone
    \/ DocxFooters
    \/ DocxEmitComplete
    \/ DocxSave
    \/ DocxUploadEmit
    \/ DocxUpload

-----------------------------------------------------------------------------
(* Tools.generate_pptx_from_json.                                          *)

PPTX == "pptx"

SlideChapter == [type |-> "chapitre", titre |-> <<LETTER>>, contenu |-> <<>>]
SlideContent ==
    [type |-> "contenu", titre |-> <<LETTER>>,
     contenu |-> <<LETTER, LF, STAR, SP, LETTER>>]
\* blank content: add_content_slide raises
SlideBlank == [type |-> "contenu", titre |-> <<LETTER>>, contenu |-> <<SP>>]

\* an entry of a type the loop has no branch for
SlideTitle == [type |-> "title", titre |-> <<LETTER, LETTER>>, contenu |-> <<>>]

SlideArgs == {SlideChapter, SlideContent, SlideBlank, SlideTitle}

Confidentialities == {"public", "internal", "confidential"}

\* if confidentiality == "public": ... elif "internal": ... else: ...
Prefix(confidentiality) ==
    CASE confidentiality = "public" -> "CS-PU-"
      [] confidentiality = "internal" -> "CS-IN-"
      [] OTHER -> "CS-CO-"

\* the template file of a language and a prefix
TemplatePath(language, prefix) ==
    IF language = "fr" \/ language = "french"
    THEN <<"./", "./", prefix, "template_fr.pptx">>
    ELSE <<"./", "./", prefix, "template_en.pptx">>

PptxRequests ==
    {[titre |-> t, slides |-> ss, language |-> l, confidentiality |-> c,
      sink |-> sk] :
        t \in Titles \cup {Some(<<>>)}, ss \in SeqUpTo(SlideArgs, MaxEntries),
        l \in {"fr", "french", "en"}, c \in {"public", "confidential"},
        sk \in BOOLEAN}

RenderSlide_TitleEntryMut(prs, slide, by) ==
    CASE slide.type \in {"chapitre", "title"} ->
            add_chapter_slide(prs, slide.titre, by)
      [] slide.type = "contenu" ->
            add_content_slide(prs, slide.titre, slide.contenu, by)
      [] OTHER -> Result(prs, NoExc)

\* the body of the loop over json_data['slides']
RenderSlide(prs, slide, by) ==
    CASE slide.type = "chapitre" -> add_chapter_slide(prs, slide.titre, by)
      [] slide.type = "contenu" ->
            add_content_slide(prs, slide.titre, slide.contenu, by)
      [] OTHER -> Result(prs, NoExc)

\* output_path = FILES_DIR + '/' + self.prefix + json_data['titre'] + '.pptx'
PptxOutputPath(instance, r) ==
    Path(instance.prefix, CleanTitle(r.titre[1]), ".pptx")

\* await emitter.emit("Initiating pptx generation ...")
PptxStart ==
    /\ pc = "start" /\ tool = PPTX
    /\ \E ok \in SinkChoice :
          /\ Emit("in_progress", FALSE, ok)
          /\ IF ok THEN pc' = "open" /\ UNCHANGED out
             ELSE Escape("SinkError", "sink")
    /\ UNCHANGED <<tool, self, req, doc, idx, fs, log>>
    /\ UNCHANGED <<hvars, cvars>>

\* self.prefix = ...; prs = Presentation(template_path): the template may be
\* missing, and the one found may lack the layouts after the title layout
PptxOpen ==
    /\ pc = "open" /\ tool = PPTX
    /\ self' = [self EXCEPT !.prefix = Prefix(req.confidentiality)]
    /\ \/ Escape("PackageNotFoundError", "open") /\ UNCHANGED <<doc, log>>
       \/ /\ doc' \in {[EmptyPrs(n) EXCEPT !.template =
                            TemplatePath(req.language, self'.prefix)] :
                          n \in {TemplateLayouts, LayoutChapterTitle}}
          /\ log' = Append(log, Step("create"))
          /\ pc' = "title_slide"
          /\ UNCHANGED out
    /\ UNCHANGED <<tool, req, idx, events, fs>>
    /\ UNCHANGED <<hvars, cvars>>

\* self.help_functions.add_title_slide(prs, title=json_data['titre'], ...)
PptxTitleSlide ==
    /\ pc = "title_slide" /\ tool = PPTX
    /\ IF req.titre = Absent
       THEN Escape("KeyError", "title_slide") /\ UNCHANGED doc
       ELSE LET r == add_title_slide(doc, req.titre[1], <<LETTER>>,
                                     [ph |-> "title", idx |-> 0])
            IN /\ doc' = r.doc
               /\ IF r.exc = NoExc
                  THEN pc' = "structure" /\ UNCHANGED out
                  ELSE Escape(r.exc, "title_slide")
    /\ UNCHANGED <<tool, self, req, idx, events, fs, log>>
    /\ UNCHANGED <<hvars, cvars>>

\* try: await emitter.emit("Creating slides")
PptxEmitCreating ==
    /\ pc = "structure" /\ tool = PPTX
    /\ \E ok \in SinkChoice :
          /\ Emit("in_progress", FALSE, ok)
          /\ IF ok THEN pc' = "slides" /\ UNCHANGED out
             ELSE Fail(ErrorBare, "sink")
    /\ UNCHANGED <<tool, self, req, doc, idx, fs, log>>
    /\ UNCHANGED <<hvars, cvars>>

\* for slide in json_data['slides']: one turn of the loop
PptxSlide ==
    /\ pc = "slides" /\ tool = PPTX
    /\ idx <= Len(req.slides)
    /\ LET e == IterOrder(Len(req.slides))[idx]
           r == RenderSlide(doc, req.slides[e], [ph |-> "slide", idx |-> e])
       IN /\ doc' = r.doc
          /\ IF r.exc = NoExc
             THEN idx' = idx + 1 /\ UNCHANGED <<pc, out>>
             ELSE Fail(ErrorBare, "render") /\ UNCHANGED idx
    /\ UNCHANGED <<tool, self, req, events, fs, log>>
    /\ UNCHANGED <<hvars, cvars>>

\* self.help_functions.add_final_slide(prs, language=language)
PptxFinalSlide ==
    /\ pc = "slides" /\ tool = PPTX
    /\ idx > Len(req.slides)
    /\ LET r == add_final_slide(doc, req.language, [ph |-> "final", idx |-> 0])
       IN /\ doc' = r.doc
          /\ IF r.exc = NoExc
             THEN pc' = "complete" /\ UNCHANGED out
             ELSE Fail(ErrorBare, "render")
    /\ UNCHANGED <<tool, self, req, idx, events, fs, log>>
    /\ UNCHANGED <<hvars, cvars>>

\* await emitter.emit(status="complete", ..., done=True) ... except
PptxEmitComplete ==
    /\ pc = "complete" /\ tool = PPTX
    /\ \E ok \in SinkChoice :
          /\ Emit("complete", TRUE, ok)
          /\ IF ok THEN /\ pc' = "save"
                     /\ log' = Append(log, Step("rendered"))
                     /\ UNCHANGED out
             ELSE Fail(ErrorBare, "sink") /\ UNCHANGED log
    /\ UNCHANGED <<tool, self, req, doc, idx, fs>>
    /\ UNCHANGED <<hvars, cvars>>

\* json_data['titre'] = re.sub(...); output_path = ...; prs.save(output_path)
PptxSave ==
    /\ pc = "save" /\ tool = PPTX
    /\ req' = [req EXCEPT !.titre = Some(CleanTitle(req.titre[1]))]
    /\ log' = Append(log, Step("save"))
    /\ \/ /\ fs' = WriteFile(fs, PptxOutputPath(self, req'), doc)
          /\ pc' = "upload_emit"
          /\ UNCHANGED out
       \/ Escape("OSError", "save") /\ UNCHANGED fs
    /\ UNCHANGED <<tool, self, doc, idx, events>>
    /\ UNCHANGED <<hvars, cvars>>

\* upload_file: await emitter.emit("getting download link for file ...")
PptxUploadEmit ==
    /\ pc = "upload_emit" /\ tool = PPTX
    /\ \E ok \in SinkChoice :
          /\ Emit("in_progress", FALSE, ok)
          /\ IF ok THEN pc' = "upload" /\ UNCHANGED out
             ELSE Fail(ErrorBare, "sink")
    /\ UNCHANGED <<tool, self, req, doc, idx, fs, log>>
    /\ UNCHANGED <<hvars, cvars>>

\* upload_file: the upload, the last event, the envelope; except: "Error"
PptxUpload ==
    /\ pc = "upload" /\ tool = PPTX
    /\ \/ /\ Fail(ErrorBare, "upload")
          /\ log' = Append(log, Step("upload"))
          /\ UNCHANGED events
       \/ \E record \in UploadRecords(Basename(PptxOutputPath(self, req))), ok \in SinkChoice :
             /\ log' = Append(log, Uploaded(record))
             /\ Emit("complete", TRUE, ok)
             /\ IF ok
                THEN Fail(Envelope(record.filename, DownloadLink(tool, record)),
                          "none")
                ELSE Fail(ErrorBare, "sink")
    /\ UNCHANGED <<tool, self, req, doc, idx, fs>>
    /\ UNCHANGED <<hvars, cvars>>

PptxNext ==
    \/ PptxStart
    \/ PptxOpen
    \/ PptxTitleSlide
    \/ PptxEmitCreating
    \/ PptxSlide
    \/ PptxFinalSlide
    \/ PptxEmitComplete
    \/ PptxSave
    \/ PptxUploadEmit
    \/ PptxUpload

-----------------------------------------------------------------------------
(* Tools.generate_excel_from_json.  A workbook is the sequence of its      *)
(* worksheets; a worksheet is its title, the values of its cells, its      *)
(* merged ranges and its tables.  Fonts, fills, borders and widths are not *)
(* modelled.                                                               *)

EXCEL == "excel"

\* str(n) for the row and sheet numbers of the model
Str(n) == <<"1", "2", "3", "4", "5", "6", "7", "8", "9">>[n]

\* get_column_letter
get_column_letter(n) == <<"A", "B", "C", "D">>[n]

\* cell values: text, numbers (by their decimal digits) and formulas
Text(s) == [t |-> "str", v |-> s]
Number(s) == [t |-> "num", v |-> s]
Formula(s) == [t |-> "formula", v |-> s]

\* ws.cell(row=r, column=c).value = value
SetCell(ws, r, c, value) ==
    [ws EXCEPT !.cells = {x \in @ : ~(x.row = r /\ x.col = c)}
                            \cup {[row |-> r, col |-> c, value |-> value]}]

\* Workbook(): one worksheet, "Sheet"
Worksheet(title, by) ==
    [title |-> title, cells |-> {}, merged |-> {}, tables |-> <<>>, by |-> by]
NewWorkbook == <<Worksheet(<<"Sheet">>, [ph |-> "default", idx |-> 0])>>

sheetnames(wb) == {wb[k].title : k \in 1..Len(wb)}

\* the characters a worksheet title must not hold
InvalidTitle(title) == \E i \in 1..Len(title) : title[i] = COLON

\* avoid_duplicate_name: a title in use gets the next free number appended
avoid_duplicate_name(names, value) ==
    IF value \notin names THEN value
    ELSE LET counts == {k \in 1..9 : (value \o <<Str(k)>>) \in names}
             highest == IF counts = {} THEN 0
                        ELSE CHOOSE k \in counts : \A j \in counts : j <= k
         IN value \o <<Str(highest + 1)>>

\* the setter of Worksheet.title, on the last worksheet of the workbook
SetTitle(wb, value) ==
    IF InvalidTitle(value) THEN Result(wb, "ValueError")
    ELSE IF wb[Len(wb)].title /= value
         THEN Result([wb EXCEPT ![Len(wb)].title =
                          avoid_duplicate_name(sheetnames(wb), value)], NoExc)
         ELSE Result(wb, NoExc)

\* wb.create_sheet(title=...)
create_sheet(wb, title, by) ==
    IF InvalidTitle(title) THEN Result(wb, "ValueError")
    ELSE Result(Append(wb, Worksheet(avoid_duplicate_name(sheetnames(wb), title),
                                     by)), NoExc)

\* format_worksheet, on the last worksheet of the workbook
format_worksheet(wb, title) ==
    LET r == SetTitle(wb, SubSeq(title, 1, IF Len(title) < 31 THEN Len(title)
                                               ELSE 31))
    IN IF r.exc /= NoExc THEN r
       ELSE Result([r.doc EXCEPT ![Len(wb)] =
                        [SetCell(@, 1, 1, Text(title))
                            EXCEPT !.merged = @ \cup {"A1:D1"}]], NoExc)

\* format_header_row
RECURSIVE format_header_row(_, _, _, _)
format_header_row(ws, row_num, columns, col_idx) ==
    IF col_idx > Len(columns) THEN ws
    ELSE format_header_row(SetCell(ws, row_num, col_idx, Text(columns[col_idx])),
                           row_num, columns, col_idx + 1)

\* for col_idx, cell_value in enumerate(row_data, 1): ... .value = cell_value
RECURSIVE WriteRow(_, _, _, _)
WriteRow(ws, row_idx, row_data, col_idx) ==
    IF col_idx > Len(row_data) THEN ws
    ELSE WriteRow(SetCell(ws, row_idx, col_idx, row_data[col_idx]),
                  row_idx, row_data, col_idx + 1)

\* for row_idx, row_data in enumerate(data_rows, header_row + 1)
RECURSIVE WriteRows(_, _, _, _)
WriteRows(ws, header_row, data_rows, k) ==
    IF k > Len(data_rows) THEN ws
    ELSE WriteRows(WriteRow(ws, header_row + k, data_rows[k], 1),
                   header_row, data_rows, k + 1)

\* create_excel_table inside try/except: without a column there is no
\* column letter and no table
create_excel_table(ws, start_row, end_row, num_cols, table_name) ==
    IF num_cols < 1 THEN ws
    ELSE [ws EXCEPT !.tables =
             Append(@, [name |-> table_name,
                        ref |-> <<"A", Str(start_row), ":",
                                  get_column_letter(num_cols), Str(end_row)>>])]

\* Detect numeric columns
numeric_cols(columns, data_rows) ==
    {c \in 1..Len(columns) :
        \A k \in 1..Len(data_rows) :
            c <= Len(data_rows[k]) => data_rows[k][c].t = "num"}

\* Add totals row with formulas
RECURSIVE WriteTotals(_, _, _, _, _)
WriteTotals(ws, total_row, cols, start_row, end_row) ==
    IF cols = {} THEN ws
    ELSE LET c == CHOOSE x \in cols : \A y \in cols : x <= y
         IN WriteTotals(
                SetCell(ws, total_row, c,
                        Formula(<<"=SUM(", get_column_letter(c), Str(start_row),
                                  ":", get_column_letter(c), Str(end_row), ")">>)),
                total_row, cols \ {c}, start_row, end_row)

HEADER_ROW == 3

\* Process table data, and the totals row
WriteTable(ws, table_data, sheet_idx) ==
    LET columns == table_data.colonnes
        data_rows == table_data.donnees
        end_row == HEADER_ROW + Len(data_rows)
        w1 == format_header_row(ws, HEADER_ROW, columns, 1)
        w2 == WriteRows(w1, HEADER_ROW, data_rows, 1)
        w3 == IF data_rows /= <<>>
              THEN create_excel_table(w2, HEADER_ROW, end_row, Len(columns),
                                      <<"Table", sheet_idx>>)
              ELSE w2
        nc == numeric_cols(columns, data_rows)
    IN IF data_rows /= <<>> /\ nc /= {}
       THEN WriteTotals(SetCell(w3, end_row + 1, 1, Text(<<"Total">>)),
                        end_row + 1, nc, HEADER_ROW + 1, end_row)
       ELSE w3

\* the body of the loop over json_data['feuilles']; e counts from 1
RenderSheet(wb, sheet_data, e, by) ==
    LET sheet_name == Get(sheet_data.nom, <<"Feuille ", Str(e)>>)
        c == IF e = 1 /\ <<"Sheet">> \in sheetnames(wb)
             THEN SetTitle(wb, sheet_name)
             ELSE create_sheet(wb, sheet_name, by)
        f == IF c.exc /= NoExc THEN c ELSE format_worksheet(c.doc, sheet_name)
    IN IF f.exc /= NoExc \/ sheet_data.tableau = Absent THEN f
       ELSE Result([f.doc EXCEPT ![Len(f.doc)] =
                        WriteTable(@, sheet_data.tableau[1], e - 1)], NoExc)

\* most data rows of a table handed to the table code directly
MaxRows == 2

\* data rows: up to two cells, each a text or a number, so that a row may
\* be shorter than the header
RowArgs ==
    UNION {[1..k -> {Text(<<LETTER>>), Number(<<"1">>)}] : k \in 0..2}

\* tables of two columns and up to MaxRows data rows
TableArgs ==
    {[colonnes |-> <<<<"c">>, <<"n">>>>, donnees |-> d] :
        d \in UNION {[1..k -> RowArgs] : k \in 0..MaxRows}}

\* the worksheet the table code receives: created and given its title row
FormattedSheet ==
    format_worksheet(create_sheet(<<>>, <<LETTER>>, Direct).doc, <<LETTER>>).doc[1]

\* the table code of the loop body, applied to one table
HWriteTable ==
    /\ hop = "init"
    /\ hargs.op = "write_table"
    /\ hdoc' = WriteTable(hpre, hargs.table, 0)
    /\ hres' = NoExc
    /\ hop' = "write_table"
    /\ UNCHANGED <<hargs, hpre>>
    /\ UNCHANGED <<rvars, cvars>>

SheetPlain == [nom |-> Some(<<LETTER>>), tableau |-> Absent]
\* a text column and a numeric column, one row
SheetTable ==
    [nom |-> Absent,
     tableau |-> Some([colonnes |-> <<<<"c">>, <<"n">>>>,
                       donnees |-> <<<<Text(<<LETTER>>), Number(<<"1">>)>>>>])]
\* a name a worksheet title must not hold
SheetBad == [nom |-> Some(<<LETTER, COLON>>), tableau |-> Absent]

SheetArgs == {SheetPlain, SheetTable, SheetBad}

ExcelRequests ==
    {[titre |-> t, feuilles |-> ss, sink |-> sk] :
        t \in Titles, ss \in SeqUpTo(SheetArgs, MaxEntries), sk \in BOOLEAN}

\* json_data.get('titre', 'excel')
DEFAULT_TITLE_EXCEL == <<"excel">>

\* output_path = FILES_DIR + '/' + clean_title + '.xlsx'
ExcelOutputPath(r) ==
    Path("", CleanTitle(Get(r.titre, DEFAULT_TITLE_EXCEL)), ".xlsx")

\* await emitter.emit("Initiating Excel generation ...")
ExcelStart ==
    /\ pc = "start" /\ tool = EXCEL
    /\ \E ok \in SinkChoice :
          /\ Emit("in_progress", FALSE, ok)
          /\ IF ok THEN pc' = "open" /\ UNCHANGED out
             ELSE Escape("SinkError", "sink")
    /\ UNCHANGED <<tool, self, req, doc, idx, fs, log>>
    /\ UNCHANGED <<hvars, cvars>>

ExcelCreate_KeepDefaultMut ==
    /\ pc = "open" /\ tool = EXCEL
    /\ doc' = NewWorkbook
    /\ log' = Append(log, Step("create"))
    /\ pc' = "structure"
    /\ UNCHANGED <<tool, self, req, idx, events, out, fs>>
    /\ UNCHANGED <<hvars, cvars>>

\* wb = Workbook(); Remove default worksheet if we have sheets defined
ExcelCreate ==
    /\ pc = "open" /\ tool = EXCEL
    /\ doc' = IF Len(req.feuilles) > 0 THEN <<>> ELSE NewWorkbook
    /\ log' = Append(log, Step("create"))
    /\ pc' = "structure"
    /\ UNCHANGED <<tool, self, req, idx, events, out, fs>>
    /\ UNCHANGED <<hvars, cvars>>

\* try: await emitter.emit("Creating Excel sheets and tables")
ExcelEmitCreating ==
    /\ pc = "structure" /\ tool = EXCEL
    /\ \E ok \in SinkChoice :
          /\ Emit("in_progress", FALSE, ok)
          /\ IF ok THEN pc' = "sheets" /\ UNCHANGED out
             ELSE Fail(ErrorColon("SinkError"), "sink")
    /\ UNCHANGED <<tool, self, req, doc, idx, fs, log>>
    /\ UNCHANGED <<hvars, cvars>>

\* for sheet_idx, sheet_data in enumerate(...): one turn of the loop
ExcelSheet ==
    /\ pc = "sheets" /\ tool = EXCEL
    /\ idx <= Len(req.feuilles)
    /\ LET e == IterOrder(Len(req.feuilles))[idx]
           r == RenderSheet(doc, req.feuilles[e], e, [ph |-> "sheet", idx |-> e])
       IN /\ doc' = r.doc
          /\ IF r.exc = NoExc
             THEN idx' = idx + 1 /\ UNCHANGED <<pc, out>>
             ELSE Fail(ErrorColon(r.exc), "render") /\ UNCHANGED idx
    /\ UNCHANGED <<tool, self, req, events, fs, log>>
    /\ UNCHANGED <<hvars, cvars>>

\* await emitter.emit(status="complete", ..., done=True) ... except
ExcelEmitComplete ==
    /\ pc = "sheets" /\ tool = EXCEL
    /\ idx > Len(req.feuilles)
    /\ \E ok \in SinkChoice :
          /\ Emit("complete", TRUE, ok)
          /\ IF ok THEN /\ pc' = "save"
                     /\ log' = Append(log, Step("rendered"))
                     /\ UNCHANGED out
             ELSE Fail(ErrorColon("SinkError"), "sink") /\ UNCHANGED log
    /\ UNCHANGED <<tool, self, req, doc, idx, fs>>
    /\ UNCHANGED <<hvars, cvars>>

\* clean_title = re.sub(...); output_path = ...; wb.save(output_path)
ExcelSave ==
    /\ pc = "save" /\ tool = EXCEL
    /\ LET titre == Get(req.titre, DEFAULT_TITLE_EXCEL)
       IN IF titre = None
          THEN Escape("TypeError", "sanitize") /\ UNCHANGED <<fs, log>>
          ELSE /\ log' = Append(log, Step("save"))
               /\ \/ /\ fs' = WriteFile(fs, ExcelOutputPath(req), doc)
                     /\ pc' = "upload_emit"
                     /\ UNCHANGED out
                  \/ Escape("OSError", "save") /\ UNCHANGED fs
    /\ UNCHANGED <<tool, self, req, doc, idx, events>>
    /\ UNCHANGED <<hvars, cvars>>

\* upload_file: await emitter.emit("Getting download link for file ...")
ExcelUploadEmit ==
    /\ pc = "upload_emit" /\ tool = EXCEL
    /\ \E ok \in SinkChoice :
          /\ Emit("in_progress", FALSE, ok)
          /\ IF ok THEN pc' = "upload" /\ UNCHANGED out
             ELSE Fail(ErrorColon("SinkError"), "sink")
    /\ UNCHANGED <<tool, self, req, doc, idx, fs, log>>
    /\ UNCHANGED <<hvars, cvars>>

\* upload_file: the upload, the last event, the envelope; except: "Error: ..."
ExcelUpload ==
    /\ pc = "upload" /\ tool = EXCEL
    /\ \/ /\ Fail(ErrorColon("UploadError"), "upload")
          /\ log' = Append(log, Step("upload"))
          /\ UNCHANGED events
       \/ \E record \in UploadRecords(Basename(ExcelOutputPath(req))), ok \in SinkChoice :
             /\ log' = Append(log, Uploaded(record))
             /\ Emit("complete", TRUE, ok)
             /\ IF ok
                THEN Fail(Envelope(record.filename, DownloadLink(tool, record)),
                          "none")
                ELSE Fail(ErrorColon("SinkError"), "sink")
    /\ UNCHANGED <<tool, self, req, doc, idx, fs>>
    /\ UNCHANGED <<hvars, cvars>>

ExcelNext ==
    \/ ExcelStart
    \/ ExcelCreate
    \/ ExcelEmitCreating
    \/ ExcelSheet
    \/ ExcelEmitComplete
    \/ ExcelSave
    \/ ExcelUploadEmit
    \/ ExcelUpload

-----------------------------------------------------------------------------
(* Direct calls: the initial states, one action per routine.               *)

\* the four fields of the cover, each absent or holding one of the values
CoverKeys == {"titre", "sous_titre", "auteur", "date"}
CoverFields(values) == [CoverKeys -> {Absent} \cup {Some(v) : v \in values}]

\* titles handed to the sanitization directly
MaxTitleLen == 3
TitleChars == {LETTER, ACCENT, "_", SP, LF, COLON}

HInit ==
    /\ hop = "init"
    /\ hres = NoExc
    /\ \/ /\ hargs \in {[op |-> "clean_title", title |-> t] :
                            t \in StrUpTo(TitleChars, MaxTitleLen)}
          /\ hpre = <<>>
       \/ /\ hargs \in {[op |-> "parse_line", line |-> l] :
                            l \in StrUpTo(LineChars, MaxLineLen)}
          /\ hpre = EmptyDoc(BlankStyles)
       \/ /\ hargs \in {[op |-> "add_paragraph_text", gen |-> g, content |-> c] :
                            g \in {GEN3, GEN5},
                            c \in StrUpTo(ContentChars, MaxContentLen)}
          /\ hpre \in DocArgs
       \/ /\ hargs \in {[op |-> "add_heading", gen |-> g, heading |-> t, level |-> n] :
                            g \in {GEN3, GEN5}, t \in TitleArgs,
                            n \in (-1)..MaxLevelArg}
          /\ hpre \in DocArgs
       \/ /\ hargs \in {[op |-> "add_title", gen |-> g, title |-> t] :
                            g \in {GEN3, GEN5}, t \in TitleArgs}
          /\ hpre \in DocArgs
       \/ /\ hargs \in {[op |-> "add_title_slide", title |-> t] : t \in TitleArgs}
          /\ hpre \in PrsArgs
       \/ /\ hargs \in {[op |-> "add_bibliography", gen |-> g, references |-> r] :
                            g \in {GEN3, GEN5}, r \in RefArgs}
          /\ hpre \in DocArgs
       \/ /\ hargs \in {[op |-> "add_cover_page", gen |-> g, title |-> t,
                            subtitle |-> st] :
                            g \in {GEN3, GEN5}, t \in TitleArgs,
                            st \in {None, <<>>, <<LETTER>>}}
          /\ hpre \in CoverDocArgs
       \/ /\ hargs \in {[op |-> "add_table_of_contents", gen |-> g] :
                            g \in {GEN3, GEN5}}
          /\ hpre \in DocArgs
       \/ /\ hargs \in {[op |-> "add_content_slide", title |-> t, content |-> c] :
                            t \in TitleArgs, c \in SlideContentArgs}
          /\ hpre \in PrsArgs
       \/ /\ hargs \in {[op |-> "add_chapter_slide", chapter |-> t] : t \in TitleArgs}
          /\ hpre \in PrsArgs
       \/ /\ hargs \in {[op |-> "cover", gen |-> g, request |-> r, cover |-> c] :
                            g \in {GEN3, GEN5}, r \in CoverFields({<<"r">>}),
                            c \in CoverFields({<<"s">>, <<>>})}
          /\ hpre \in {EmptyDoc(BlankStyles), EmptyDoc(CustomStyles)}
       \/ /\ hargs \in {[op |-> "write_table", table |-> tb] : tb \in TableArgs}
          /\ hpre = FormattedSheet
       \/ /\ hargs \in {[op |-> "add_section_header", gen |-> g, title |-> t] :
                            g \in {GEN3, GEN5}, t \in TitleArgs}
          /\ hpre \in DocArgs
    /\ hdoc = hpre
    /\ RIdle
    /\ CIdle

HParseLine ==
    /\ hop = "init"
    /\ hargs.op = "parse_line"
    /\ hop' = "parse_line"
    /\ hres' = [docx |-> ParseLineDocx(hargs.line),
                pptx |-> ParseLinePptx(hargs.line)]
    /\ UNCHANGED <<hargs, hpre, hdoc>>
    /\ UNCHANGED <<rvars, cvars>>

HAddParagraphText ==
    /\ hop = "init"
    /\ hargs.op = "add_paragraph_text"
    /\ LET r == add_paragraph_text(hargs.gen, hpre, hargs.content, Direct)
       IN /\ hdoc' = r.doc
          /\ hres' = r.exc
    /\ hop' = "add_paragraph_text"
    /\ UNCHANGED <<hargs, hpre>>
    /\ UNCHANGED <<rvars, cvars>>

HAddHeading ==
    /\ hop = "init"
    /\ hargs.op = "add_heading"
    /\ LET r == add_heading(hargs.gen, hpre, hargs.heading, hargs.level, Direct)
       IN /\ hdoc' = r.doc
          /\ hres' = r.exc
    /\ hop' = "add_heading"
    /\ UNCHANGED <<hargs, hpre>>
    /\ UNCHANGED <<rvars, cvars>>

HAddTitle ==
    /\ hop = "init"
    /\ hargs.op = "add_title"
    /\ LET r == add_title(hargs.gen, hpre, hargs.title, Direct)
       IN /\ hdoc' = r.doc
          /\ hres' = r.exc
    /\ hop' = "add_title"
    /\ UNCHANGED <<hargs, hpre>>
    /\ UNCHANGED <<rvars, cvars>>

HAddTitleSlide ==
    /\ hop = "init"
    /\ hargs.op = "add_title_slide"
    /\ LET r == add_title_slide(hpre, hargs.title, <<LETTER>>, Direct)
       IN /\ hdoc' = r.doc
          /\ hres' = r.exc
    /\ hop' = "add_title_slide"
    /\ UNCHANGED <<hargs, hpre>>
    /\ UNCHANGED <<rvars, cvars>>

HAddBibliography ==
    /\ hop = "init"
    /\ hargs.op = "add_bibliography"
    /\ LET r == add_bibliography(hargs.gen, hpre, hargs.references, Direct)
       IN /\ hdoc' = r.doc
          /\ hres' = r.exc
    /\ hop' = "add_bibliography"
    /\ UNCHANGED <<hargs, hpre>>
    /\ UNCHANGED <<rvars, cvars>>

\* the routine of the call made, run on document d
Routine(d) ==
    CASE hargs.op = "add_paragraph_text" ->
             add_paragraph_text(hargs.gen, d, hargs.content, Direct)
      [] hargs.op = "add_heading" ->
             add_heading(hargs.gen, d, hargs.heading, hargs.level, Direct)
      [] hargs.op = "add_cover_page" ->
             add_cover_page(hargs.gen, d, hargs.title, hargs.subtitle,
                            None, None, Direct)
      [] hargs.op = "add_table_of_contents" ->
             add_table_of_contents(hargs.gen, d, Direct)
      [] hargs.op = "add_section_header" ->
             add_section_header(hargs.gen, d, hargs.title, Direct)

HAddCoverPage ==
    /\ hop = "init"
    /\ hargs.op = "add_cover_page"
    /\ LET r == Routine(hpre)
       IN /\ hdoc' = r.doc
          /\ hres' = r.exc
    /\ hop' = "add_cover_page"
    /\ UNCHANGED <<hargs, hpre>>
    /\ UNCHANGED <<rvars, cvars>>

HAddTableOfContents ==
    /\ hop = "init"
    /\ hargs.op = "add_table_of_contents"
    /\ LET r == Routine(hpre)
       IN /\ hdoc' = r.doc
          /\ hres' = r.exc
    /\ hop' = "add_table_of_contents"
    /\ UNCHANGED <<hargs, hpre>>
    /\ UNCHANGED <<rvars, cvars>>

HAddSectionHeader ==
    /\ hop = "init"
    /\ hargs.op = "add_section_header"
    /\ LET r == Routine(hpre)
       IN /\ hdoc' = r.doc
          /\ hres' = r.exc
    /\ hop' = "add_section_header"
    /\ UNCHANGED <<hargs, hpre>>
    /\ UNCHANGED <<rvars, cvars>>

HAddContentSlide ==
    /\ hop = "init"
    /\ hargs.op = "add_content_slide"
    /\ LET r == add_content_slide(hpre, hargs.title, hargs.content, Direct)
       IN /\ hdoc' = r.doc
          /\ hres' = r.exc
    /\ hop' = "add_content_slide"
    /\ UNCHANGED <<hargs, hpre>>
    /\ UNCHANGED <<rvars, cvars>>

HAddChapterSlide ==
    /\ hop = "init"
    /\ hargs.op = "add_chapter_slide"
    /\ LET r == add_chapter_slide(hpre, hargs.chapter, Direct)
       IN /\ hdoc' = r.doc
          /\ hres' = r.exc
    /\ hop' = "add_chapter_slide"
    /\ UNCHANGED <<hargs, hpre>>
    /\ UNCHANGED <<rvars, cvars>>

\* step 1 of the try block of generate_docx_from_json, for a request whose
\* first cover section is hargs.cover
HCover ==
    /\ hop = "init"
    /\ hargs.op = "cover"
    /\ LET r == RenderCover(hargs.gen, hpre, hargs.request, hargs.cover, Direct)
       IN /\ hdoc' = r.doc
          /\ hres' = r.exc
    /\ hop' = "cover"
    /\ UNCHANGED <<hargs, hpre>>
    /\ UNCHANGED <<rvars, cvars>>

\* clean_title = re.sub(r'[^\w\s]', '', title); clean_title.replace(' ', '_')
HCleanTitle ==
    /\ hop = "init"
    /\ hargs.op = "clean_title"
    /\ hdoc' = CleanTitle(hargs.title)
    /\ hres' = NoExc
    /\ hop' = "clean_title"
    /\ UNCHANGED <<hargs, hpre>>
    /\ UNCHANGED <<rvars, cvars>>

HNext ==
    \/ HCleanTitle
    \/ HParseLine
    \/ HAddParagraphText
    \/ HAddHeading
    \/ HAddTitle
    \/ HAddTitleSlide
    \/ HAddBibliography
    \/ HAddCoverPage
    \/ HAddTableOfContents
    \/ HAddSectionHeader
    \/ HAddContentSlide
    \/ HAddChapterSlide
    \/ HWriteTable
    \/ HCover

SpecHelpers == HInit /\ [][HNext]_vars

-----------------------------------------------------------------------------
(* Properties of the rendering routines, checked under SpecHelpers.        *)

\* the number of space characters a line starts with
LeadingSpaces(line) ==
    Cardinality({i \in 1..Len(line) : \A j \in 1..i : line[j] = SP})

\* the number of lines of a content string: one more than its line feeds
NumLines(content) ==
    1 + Cardinality({i \in 1..Len(content) : content[i] = LF})

\* C7: add_heading with a non-blank title raises a validation error and
\* leaves the document alone for every level outside 1..3 (resp. 1..5), and
\* for every level inside the range it returns normally having appended
\* exactly one paragraph, the heading.
C7_HeadingLevelValidation ==
    (hop = "add_heading" /\ ~StripIsEmpty(hargs.heading)) =>
        IF hargs.level < 1 \/ hargs.level > MaxHeadingLevel(hargs.gen)
        THEN hres = "ValueError" /\ hdoc = hpre
        ELSE /\ hres = NoExc
             /\ Len(hdoc.paras) = Len(hpre.paras) + 1
             /\ hdoc.paras[Len(hdoc.paras)].text = hargs.heading

\* C8: an empty-string title makes add_title (both DOCX generators) and
\* add_title_slide (PPTX) raise a validation error, and the document or
\* presentation is left exactly as it was.
C8_EmptyTitleRejected ==
    (hop \in {"add_title", "add_title_slide"} /\ hargs.title = <<>>) =>
        (hres = "ValueError" /\ hdoc = hpre)

C8_Witness ==
    /\ hop = "add_title"
    /\ hargs.gen = GEN5
    /\ hargs.title = <<>>
    /\ hres = "ValueError"
    /\ hpre.paras /= <<>>

\* C9: for one line, the level is the number of complete 4-space units the
\* line starts with, floor(leading_spaces / 4); the line is a bullet exactly
\* when what is left after those units starts with "* " or with U+2022 and
\* a space; the text is what is left, without the 2-character marker when
\* it is a bullet; and the DOCX and the PPTX parser give the same
\* (units stripped, is_bullet, text).
C9_LineParse ==
    hop = "parse_line" =>
        LET line == hargs.line
            n == LeadingSpaces(line) \div 4
            rest == Drop(line, 4 * n)
            marked == /\ Len(rest) >= 2
                      /\ rest[1] \in {STAR, BULLET}
                      /\ rest[2] = SP
        IN /\ hres.docx.level = n
           /\ hres.docx.bullet = marked
           /\ hres.docx.text = (IF marked THEN Drop(rest, 2) ELSE rest)
           /\ hres.pptx = hres.docx

\* four spaces then "* a": level 1, bullet, text "a"
C9_Witness ==
    /\ hop = "parse_line"
    /\ hargs.line = <<SP, SP, SP, SP, STAR, SP, LETTER>>
    /\ hres.docx = [level |-> 1, bullet |-> TRUE, text |-> <<LETTER>>]

\* C10: the number of paragraphs add_paragraph_text appends equals the
\* number of lines of the content split on line feeds, for every content
\* string.
C10_OneParagraphPerLine ==
    hop = "add_paragraph_text" =>
        Len(hdoc.paras) - Len(hpre.paras) = NumLines(hargs.content)

\* the document after a call holds the paragraphs it held before, unchanged,
\* in front of those the call appended
Content(d) == IF "paras" \in DOMAIN d THEN d.paras ELSE d.slides
PrefixKept == /\ Len(Content(hdoc)) >= Len(Content(hpre))
              /\ SubSeq(Content(hdoc), 1, Len(Content(hpre))) = Content(hpre)

\* C11: add_bibliography with an empty list leaves the document unchanged;
\* with n >= 1 references it returns having appended one section header and
\* then n paragraphs, one per reference in list order, each with left indent
\* 36pt and first-line indent -36pt.
C11_Bibliography ==
    hop = "add_bibliography" =>
        LET refs == hargs.references
            base == Len(hpre.paras)
        IN IF refs = <<>> THEN hres = NoExc /\ hdoc = hpre
           ELSE /\ hres = NoExc
                /\ PrefixKept
                /\ Len(hdoc.paras) = base + 1 + Len(refs)
                /\ hdoc.paras[base + 1].text = <<"Bibliographie / References">>
                /\ \A k \in 1..Len(refs) :
                      /\ hdoc.paras[base + 1 + k].text = refs[k]
                      /\ hdoc.paras[base + 1 + k].left_indent = 36
                      /\ hdoc.paras[base + 1 + k].first_line_indent = -36

\* the routines that hand a named style to add_paragraph
StyledRoutines ==
    {"add_cover_page", "add_table_of_contents", "add_heading",
     "add_section_header", "add_paragraph_text"}

\* what the call made does on the same document when every style is defined
WithEveryStyle ==
    Routine([hpre EXCEPT !.styles = BlankStyles \cup CustomStyles])

\* the call asks for a style the document does not define
LacksStyle ==
    \E k \in (Len(hpre.paras) + 1)..Len(WithEveryStyle.doc.paras) :
        WithEveryStyle.doc.paras[k].style \notin hpre.styles \cup {NoStyle}

\* C14: a rendering routine that applies a named style, called with an input
\* it accepts on a document lacking that style, returns normally having
\* appended its paragraphs: as many as it appends when the style is defined.
C14_StyleFallback ==
    (/\ hop \in StyledRoutines
     /\ WithEveryStyle.exc = NoExc
     /\ LacksStyle)
        => /\ hres = NoExc
           /\ Len(hdoc.paras) = Len(WithEveryStyle.doc.paras)

\* C16: a rendering routine only appends: whatever way it ends, the content
\* the document or presentation held before the call is an unchanged prefix
\* of the content after it; and a call that ends with a validation error
\* (blank title, blank slide content, heading level out of range) leaves the
\* document or presentation exactly as it was.
C16_AppendOnly ==
    hop \notin {"init", "parse_line", "write_table", "cover", "clean_title"} =>
        /\ PrefixKept
        /\ hres = "ValueError" => hdoc = hpre

\* a content slide refused for its blank content on a presentation that
\* already holds a slide
C16_Witness ==
    /\ hop = "add_content_slide"
    /\ ~StripIsEmpty(hargs.title) /\ StripIsEmpty(hargs.content)
    /\ hres = "ValueError"
    /\ Len(hpre.slides) > 0
    /\ hdoc = hpre

\* the value the cover shows for a key: the section's when the section
\* carries the key, the request's otherwise, nothing when neither does
Shown(key) ==
    IF hargs.cover[key] /= Absent THEN hargs.cover[key][1]
    ELSE IF hargs.request[key] /= Absent THEN hargs.request[key][1]
    ELSE <<>>

\* the texts of the paragraphs of a cover page: two empty paragraphs, the
\* title, then subtitle, author and date when there is one, a page break
CoverTexts ==
    <<<<>>, <<>>, Shown("titre")>>
        \o (IF Shown("sous_titre") /= <<>> THEN <<Shown("sous_titre")>> ELSE <<>>)
        \o (IF Shown("auteur") /= <<>>
            THEN <<<<"Auteur: ">> \o Shown("auteur")>> ELSE <<>>)
        \o (IF Shown("date") /= <<>> THEN <<Shown("date")>> ELSE <<>>)
        \o <<<<>>>>

\* C19: the cover page shows, for the title, the subtitle, the author and
\* the date, the cover section's value when the section carries the key and
\* the request-level value otherwise.
C19_CoverFields ==
    hop = "cover" =>
        /\ hres = NoExc
        /\ [k \in 1..Len(hdoc.paras) |-> hdoc.paras[k].text] = CoverTexts

\* a cover whose section carries a title and no author, in a request that
\* has both
C19_Witness ==
    /\ hop = "cover"
    /\ hargs.cover["titre"] = Some(<<"s">>) /\ hargs.cover["auteur"] = Absent
    /\ hargs.request["titre"] = Some(<<"r">>)
    /\ hargs.request["auteur"] = Some(<<"r">>)
    /\ hdoc.paras[3].text = <<"s">>
    /\ hdoc.paras[4].text = <<"Auteur: ", "r">>

\* the cell of a worksheet, <<>> when nothing was written to it
Cell(ws, r, c) ==
    LET at == {x \in ws.cells : x.row = r /\ x.col = c}
    IN IF at = {} THEN <<>> ELSE <<(CHOOSE x \in at : TRUE).value>>

\* every data row holds a number in column c
AllNumbers(data_rows, c) ==
    \A k \in 1..Len(data_rows) :
        c <= Len(data_rows[k]) /\ data_rows[k][c].t = "num"

\* C17: for a table with at least one data row, the row after the data rows
\* holds in a column the formula SUM over exactly the data rows of that column
\* if and only if every data row holds a number in that column, and that row
\* is written if and only if there is such a column.
C17_Totals ==
    (hop = "write_table" /\ hargs.table.donnees /= <<>>) =>
        LET columns == hargs.table.colonnes
            data_rows == hargs.table.donnees
            first == HEADER_ROW + 1
            last == HEADER_ROW + Len(data_rows)
            sum(c) == Formula(<<"=SUM(", get_column_letter(c), Str(first), ":",
                                get_column_letter(c), Str(last), ")">>)
        IN /\ \A c \in 1..Len(columns) :
                 Cell(hdoc, last + 1, c) = <<sum(c)>> <=> AllNumbers(data_rows, c)
           /\ (\E x \in hdoc.cells : x.row = last + 1)
                 <=> \E c \in 1..Len(columns) : AllNumbers(data_rows, c)

\* the 4-space units stripped from a line, and what is left of it
UnitsStripped(line) == LeadingSpaces(line) \div 4
Stripped(line) == Drop(line, 4 * UnitsStripped(line))
Bulleted(line) ==
    StartsWith(Stripped(line), <<STAR, SP>>)
        \/ StartsWith(Stripped(line), <<BULLET, SP>>)

\* the content slide a call added: one paragraph per line behind the
\* placeholder's own
SlideAdded ==
    /\ hop = "add_content_slide"
    /\ Len(hdoc.slides) = Len(hpre.slides) + 1

\* the paragraph of line k has the level and text stated for it
LevelAsStated(k) ==
    LET line == Split(hargs.content)[k]
        n == UnitsStripped(line)
        body == hdoc.slides[Len(hdoc.slides)].body
    IN /\ k + 1 <= Len(body)
       /\ IF Bulleted(line)
          THEN /\ body[k + 1].level = IF n = 0 THEN 1 ELSE n + 2
               /\ body[k + 1].level /= 2
               /\ body[k + 1].text = Drop(Stripped(line), 2)
          ELSE /\ body[k + 1].level = 0
               /\ body[k + 1].text =
                      [i \in 1..(3 * n) |-> SP] \o Stripped(line)

\* C24: on a content slide a bulleted line from which n 4-space units were
\* stripped has outline level 1 when n = 0 and n + 2 when n >= 1, never 2;
\* a line without a bullet has outline level 0 and its text behind 3 * n
\* spaces.
C24_OutlineLevel ==
    SlideAdded =>
        \A k \in 1..Len(Split(hargs.content)) : LevelAsStated(k)

\* the same for the lines of at most 6 units, whose level the paragraph
\* takes
C24_UpToSixUnits ==
    SlideAdded =>
        \A k \in 1..Len(Split(hargs.content)) :
            (\A j \in 1..k : UnitsStripped(Split(hargs.content)[j]) <= 6)
                => LevelAsStated(k)

\* the first paragraph add_cover_page wrote is a page break
LeadingBreak ==
    /\ Len(hdoc.paras) > Len(hpre.paras)
    /\ hdoc.paras[Len(hpre.paras) + 1].kind = "page_break"

\* C25: add_cover_page starts with a page break exactly when some paragraph
\* the document held before the call has text that is not whitespace.
C25_LeadingPageBreak ==
    hop = "add_cover_page" =>
        (LeadingBreak <=>
            \E k \in 1..Len(hpre.paras) : ~StripIsEmpty(hpre.paras[k].text))

\* the same with the test the routine makes: the first paragraph only
C25_FirstParagraphOnly ==
    hop = "add_cover_page" =>
        (LeadingBreak <=>
            (Len(hpre.paras) > 0 /\ ~StripIsEmpty(hpre.paras[1].text)))

\* the row behind the data rows of the table
TotalsRow == HEADER_ROW + Len(hargs.table.donnees) + 1

\* C29: when the table code writes a totals row, the first cell of that row
\* holds the label "Total" when the sheet is finished, whichever columns are
\* numeric.
C29_TotalLabel ==
    (hop = "write_table" /\ \E x \in hdoc.cells : x.row = TotalsRow) =>
        Cell(hdoc, TotalsRow, 1) = <<Text(<<"Total">>)>>

\* the same for the tables whose first column holds a text in some row
C29_TextFirstColumn ==
    (/\ hop = "write_table"
     /\ \E x \in hdoc.cells : x.row = TotalsRow
     /\ \E k \in 1..Len(hargs.table.donnees) :
           /\ Len(hargs.table.donnees[k]) >= 1
           /\ hargs.table.donnees[k][1].t /= "num") =>
        Cell(hdoc, TotalsRow, 1) = <<Text(<<"Total">>)>>

\* C30: the sanitization of a title is idempotent (sanitizing the sanitized
\* title gives the sanitized title again) and the sanitized title holds no
\* space character.
C30_SanitizeIdempotent ==
    hop = "clean_title" =>
        /\ CleanTitle(hdoc) = hdoc
        /\ \A i \in 1..Len(hdoc) : hdoc[i] /= SP

\* a title with a space, punctuation and a line feed: the punctuation is
\* gone, the space is an underscore, the line feed is kept
C30_Witness ==
    /\ hop = "clean_title"
    /\ hargs.title = <<SP, COLON, LF>>
    /\ hdoc = <<"_", LF>>

-----------------------------------------------------------------------------
(* Tools.create_file of the basic file tool: one synchronous call.         *)

BASIC == "basic"

BasicRequests ==
    {[file_name |-> n, file_extension |-> x, file_content |-> c, sink |-> FALSE] :
        n \in {<<LETTER>>, <<LETTER, ".txt">>}, x \in {None, <<"txt">>},
        c \in StrUpTo({LETTER, LF}, 2)}

\* if file_extension and not file_name.endswith(f".{file_extension}")
FileName(r) ==
    IF Truthy(r.file_extension)
       /\ r.file_name[Len(r.file_name)] /= "." \o r.file_extension[1]
    THEN r.file_name \o <<"." \o r.file_extension[1]>>
    ELSE r.file_name

\* get_file_download_link, by what the upload gives back
get_file_download_link(outcome) ==
    CASE outcome = "ok" -> "link"
      [] outcome = "raises" -> "{'error': 'Error uploading file: ...'}"
      [] outcome = "no_id" -> "{'error': 'No file ID returned from upload'}"

create_file ==
    /\ pc = "start" /\ tool = BASIC
    /\ fs' = WriteFile(fs, <<FILES_DIR, "/">> \o FileName(req), req.file_content)
    /\ \E outcome \in {"ok", "raises", "no_id"} :
          Fail(<<"This is the dowload link for the ">> \o FileName(req)
                   \o <<" : ", get_file_download_link(outcome)>>,
               IF outcome = "ok" THEN "none" ELSE "upload")
    /\ UNCHANGED <<tool, self, req, doc, idx, events, log>>
    /\ UNCHANGED <<hvars, cvars>>

-----------------------------------------------------------------------------
(* One request: a generator, its arguments, and the steps of its entry     *)
(* point.                                                                  *)

\* the helper variables of a specification that calls no routine directly
HIdle ==
    /\ hop = "idle"
    /\ hargs = <<>>
    /\ hpre = <<>>
    /\ hdoc = <<>>
    /\ hres = NoExc

Init ==
    /\ \/ tool \in DocxTools /\ req \in DocxRequests /\ self = <<>>
       \/ tool = PPTX /\ req \in PptxRequests /\ self = [prefix |-> "CS-"]
       \/ tool = EXCEL /\ req \in ExcelRequests /\ self = <<>>
       \/ tool = BASIC /\ req \in BasicRequests /\ self = <<>>
    /\ pc = "start"
    /\ doc = <<>>
    /\ idx = 1
    /\ events = <<>>
    /\ out = Running
    /\ fs = {}
    /\ log = <<>>
    /\ HIdle
    /\ CIdle

Next ==
    \/ DocxNext
    \/ PptxNext
    \/ ExcelNext
    \/ create_file

Spec == Init /\ [][Next]_vars

-----------------------------------------------------------------------------
(* Properties of one request, checked under Spec.                          *)

\* the request built a document (resp. a presentation)
HasParas == tool \in DocxTools /\ "paras" \in DOMAIN doc
HasSlides == tool = PPTX /\ "slides" \in DOMAIN doc

\* the phases in the order the contract gives them; the paragraphs of the
\* template come before everything a request writes
PhaseRank(ph) ==
    CASE ph = "template" -> 0
      [] ph = "cover" -> 1
      [] ph = "toc" -> 2
      [] ph = "section" -> 3

WrittenBy(ph) == {k \in 1..Len(doc.paras) : doc.paras[k].by.ph = ph}

FootersWritten == \E k \in 1..Len(doc.footers) : doc.footers[k] /= NoFooter

\* C1: generate_docx_from_json mutates the document in the order cover
\* page, table of contents, sections, footers.  The paragraphs of the cover
\* page come before those of the table of contents, which come before those
\* of every section, wherever the cover-page entry stands in the array; when
\* the first section is about to be rendered the cover page is there exactly
\* if the request has a cover-page entry and the table of contents exactly
\* if it asks for one; and the footers are written only after the last
\* section was rendered.
C1_PhaseOrder ==
    HasParas =>
        /\ \A a, b \in 1..Len(doc.paras) :
              a < b => PhaseRank(doc.paras[a].by.ph) <= PhaseRank(doc.paras[b].by.ph)
        /\ (pc = "sections" \/ FootersWritten) =>
              /\ (WrittenBy("cover") /= {}) = (CoverIndex(req.sections) /= 0)
              /\ (WrittenBy("toc") /= {}) = req.inclure_table_matieres
        /\ FootersWritten =>
              /\ idx = Len(req.sections) + 1
              /\ pc \in {"complete", "save", "upload_emit", "upload", "done"}
              /\ \A k \in 1..Len(doc.footers) : doc.footers[k] /= NoFooter
        /\ pc \in {"cover", "toc", "sections", "footer"} => ~FootersWritten

\* a cover-page entry in the middle of the array, a table of contents, a
\* template that holds a paragraph, and the request served to the end
C1_Witness ==
    /\ HasParas
    /\ pc = "done" /\ out.cause = "none"
    /\ req.sections = <<SecContent, SecCover, SecHeading>>
    /\ req.inclure_table_matieres
    /\ WrittenBy("template") /= {}
    /\ WrittenBy("cover") /= {}
    /\ WrittenBy("toc") /= {}
    /\ WrittenBy("section") /= {}
    /\ FootersWritten

\* the input entries that wrote the elements of an output sequence, in the
\* order of the output
Writers(output, ph) ==
    LET at == {k \in 1..Len(output) : output[k].by.ph = ph}
        RECURSIVE Collect(_)
        Collect(k) == IF k > Len(output) THEN <<>>
                      ELSE (IF k \in at THEN <<output[k].by.idx>> ELSE <<>>)
                               \o Collect(k + 1)
    IN Collect(1)

NonDecreasing(q) == \A a, b \in 1..Len(q) : a < b => q[a] <= q[b]

\* C2: the order of the input entries is the order of the output: in the
\* paragraphs of a document (resp. the slides of a presentation, the
\* worksheets of a workbook) everything written for entry i comes before
\* everything written for entry j whenever i < j.
C2_InputOrderKept ==
    /\ HasParas => NonDecreasing(Writers(doc.paras, "section"))
    /\ HasSlides => NonDecreasing(Writers(doc.slides, "slide"))
    /\ tool = EXCEL => NonDecreasing(Writers(doc, "sheet"))

\* three sections served to the end: the paragraphs of the content section,
\* then the heading, then the bibliography
C2_Witness ==
    /\ HasParas
    /\ pc = "done" /\ out.cause = "none"
    /\ req.sections = <<SecContent, SecHeading, SecBiblio>>
    /\ Writers(doc.paras, "section") = <<1, 1, 2, 3, 3>>

\* C3: no entry point ends by raising: whatever step fails, the request
\* ends with a returned string.
C3_NoExceptionEscapes == out.kind /= "raised"

\* C4: a request that fails because an entry fails to render or because the
\* upload raises returns a string that begins with "Error: ".
C4_ErrorPrefix ==
    (pc = "done" /\ out.kind = "returned" /\ out.cause \in {"render", "upload"})
        => out.val[1] = "Error: "

\* the sanitized title as the specification describes it: only unaccented
\* letters, digits and whitespace survive, and spaces become underscores
RECURSIVE AsciiClean(_)
AsciiClean(t) ==
    IF t = <<>> THEN <<>>
    ELSE LET c == Head(t)
         IN (IF c = SP THEN <<"_">>
             ELSE IF c \in {LETTER, LF} \cup {DEFAULT_TITLE[1], DEFAULT_TITLE_EXCEL[1]}
                  THEN <<c>> ELSE <<>>) \o AsciiClean(Tail(t))

\* the path the specification gives the saved file of the request
SpecifiedPath ==
    CASE tool = PPTX -> Path(self.prefix, AsciiClean(Get(req.titre, <<>>)), ".pptx")
      [] tool = EXCEL -> Path("", AsciiClean(Get(req.titre, DEFAULT_TITLE_EXCEL)), ".xlsx")
      [] OTHER -> Path("", AsciiClean(Get(req.titre, DEFAULT_TITLE)), ".docx")

\* a step that saves a file saves it under the specified path
SavedAsSpecified ==
    tool \in {GEN3, PPTX, EXCEL} => \A f \in fs' \ fs : f.path = SpecifiedPath

\* C12: every file a generator saves is named prefix + sanitized title +
\* extension, where the sanitized title is the request's title without the
\* characters that are neither alphanumeric nor whitespace (accented letters
\* and punctuation dropped) and with spaces replaced by underscores.
C12_SanitizedFileName == [][SavedAsSpecified]_vars

\* the document in hand is the empty one substituted for a template that
\* could not be opened
FellBack == tool \in DocxTools /\ HasParas /\ doc.styles = BlankStyles

\* C13: a template that cannot be loaded never ends a document or a
\* presentation request: no request raises or returns an error at the load
\* itself, and a request continuing on the substituted empty document never
\* fails for a style the template would have supplied.
C13_TemplateFailureRecovered ==
    /\ out.cause /= "open"
    /\ FellBack => out.val \notin {<<"KeyError">>, ErrorColon("KeyError")}

\* how many times a step was taken, and where it stands in the log
Times(step) == Cardinality({k \in DOMAIN log : log[k].step = step})
Before(a, b) ==
    \A j \in DOMAIN log : log[j].step = b => \E k \in 1..(j - 1) : log[k].step = a

\* what holds of the log at every moment: nothing is done twice, nothing is
\* saved before the rendering is over, nothing uploaded before it is saved
LogOrdered ==
    /\ Times("create") <= 1 /\ Times("save") <= 1 /\ Times("upload") <= 1
    /\ Before("create", "rendered")
    /\ Before("rendered", "save")
    /\ Before("save", "upload")

\* C15: the document is created once; a request whose rendering succeeded
\* ends having saved the document exactly once and called the upload exactly
\* once, the save before the upload; a request whose rendering failed ends
\* with neither a save nor an upload; no upload is made a second time.
C15_SaveThenUploadOnce ==
    tool \in {GEN3, PPTX, EXCEL} =>
        /\ LogOrdered
        /\ pc = "done" =>
              IF Times("rendered") = 1
              THEN Times("create") = 1 /\ Times("save") = 1 /\ Times("upload") = 1
              ELSE Times("save") = 0 /\ Times("upload") = 0

\* the worksheet was built from the k-th entry of the request: by the k-th
\* turn of the loop, with the entry's name in its title row and the header
\* row of the entry's table if it has one
BuiltFrom(ws, k) ==
    LET entry == req.feuilles[k]
    IN /\ ws.by = [ph |-> "sheet", idx |-> k]
       /\ Cell(ws, 1, 1) = <<Text(Get(entry.nom, <<"Feuille ", Str(k)>>))>>
       /\ entry.tableau /= Absent <=> Cell(ws, HEADER_ROW, 1) /= <<>>

\* C18: once the sheets of a request with n >= 1 sheet entries are rendered,
\* the workbook holds exactly n worksheets, the k-th built from the k-th
\* entry, none of them the default worksheet of the new workbook; the file
\* saved is that workbook.
C18_OneWorksheetPerEntry ==
    (tool = EXCEL /\ Times("rendered") = 1 /\ Len(req.feuilles) >= 1) =>
        /\ Len(doc) = Len(req.feuilles)
        /\ \A k \in 1..Len(doc) : BuiltFrom(doc[k], k)
        /\ \A k \in 1..Len(doc) : doc[k].by.ph /= "default"
        /\ \A f \in fs : f.content = doc

\* a request of two sheets, the second with a table, served to the end
C18_Witness ==
    /\ tool = EXCEL /\ pc = "done" /\ out.cause = "none"
    /\ Len(req.feuilles) = 2
    /\ req.feuilles[2].tableau /= Absent
    /\ Len(doc) = 2
    /\ fs /= {}

\* the request ended with the value upload_file returns after the upload
Succeeded ==
    /\ tool \in {GEN3, PPTX, EXCEL}
    /\ pc = "done" /\ out.kind = "returned" /\ out.cause = "none"

\* the record the upload of the request returned
TheRecord == log[Len(log)].record[1]

\* the envelope around the filename of a record and the link to it
SourceEnvelope(record) ==
    <<"<source><source_id>", record.filename, "</source_id><source_context>",
      <<API_BASE_URL(tool), record.id, "/content">>, "</source_context></source>">>

\* C20 as stated: a request that succeeds returns exactly the envelope, with
\* the filename of the record the upload returned and the link base_url +
\* record.id + "/content" of that record.
C20_EnvelopeAsStated ==
    Succeeded => out.val = SourceEnvelope(TheRecord)

\* C20: a request that succeeds returns the envelope, with the filename of
\* the record the upload returned and the link base_url + record.id +
\* "/content" of that record, followed by one line feed.
C20_Envelope ==
    Succeeded => out.val = Append(SourceEnvelope(TheRecord), LF)

\* a request that succeeded with a record whose filename is not the name of
\* the file saved
C20_Witness ==
    /\ Succeeded
    /\ \A f \in fs : TheRecord.filename /= Basename(f.path)
    /\ out.val[2] = TheRecord.filename

\* C21: without a status sink no event is delivered and no step fails for the
\* sink; with one, every event delivered has type "status", a status among
\* in_progress, complete and error, a description and a boolean done.
C21_StatusEvents ==
    tool \in {GEN3, PPTX, EXCEL} =>
        /\ ~req.sink => events = <<>> /\ out.cause /= "sink"
        /\ \A k \in 1..Len(events) :
              /\ DOMAIN events[k] = {"type", "status", "description", "done"}
              /\ events[k].type = "status"
              /\ events[k].status \in {"in_progress", "complete", "error"}
              /\ events[k].description = "str"
              /\ events[k].done \in BOOLEAN

\* a request with a sink that received the event closing the rendering
C21_Witness ==
    /\ tool \in {GEN3, PPTX, EXCEL} /\ req.sink
    /\ Len(events) >= 3
    /\ events[1].status = "in_progress" /\ ~events[1].done
    /\ events[3].status = "complete" /\ events[3].done

\* the presentation was opened from the French template
FrenchTemplate == doc.template[Len(doc.template)] = "template_fr.pptx"

\* C22: the closing slide of a presentation has the French closing layout
\* exactly when the presentation was built from the French template, and the
\* English closing layout exactly when it was built from the English one,
\* whatever the language argument.
C22_FinalSlideLanguage ==
    HasSlides =>
        \A k \in 1..Len(doc.slides) :
            doc.slides[k].by.ph = "final" =>
                /\ doc.slides[k].layout = LayoutFinalSlideFr <=> FrenchTemplate
                /\ doc.slides[k].layout = LayoutFinalSlideEn <=> ~FrenchTemplate

\* the markers of a field, begin first and end last, one of each
OneBeginOneEnd(f) ==
    /\ f[1] = "begin"
    /\ f[Len(f)] = "end"
    /\ Cardinality({k \in 1..Len(f) : f[k] = "begin"}) = 1
    /\ Cardinality({k \in 1..Len(f) : f[k] = "end"}) = 1

FieldParas == {k \in 1..Len(doc.paras) : doc.paras[k].fields /= <<>>}

\* C23: field codes.  A document holds at most one paragraph with a field,
\* written by the table-of-contents step, and the run of that paragraph
\* holds the markers begin, instruction text (TOC), separate, end in that
\* order; once the footer step has run the footer of every section of the
\* document holds the markers begin, instruction text (PAGE), end in that
\* order; every field has exactly one begin and one end, the begin first.
C23_FieldCodes ==
    HasParas =>
        /\ Cardinality(FieldParas) <= 1
        /\ \A k \in FieldParas :
              /\ doc.paras[k].by.ph = "toc"
              /\ doc.paras[k].fields = <<"begin", "TOC", "separate", "end">>
              /\ OneBeginOneEnd(doc.paras[k].fields)
        /\ (pc = "complete" \/ FootersWritten) =>
              \A k \in 1..Len(doc.footers) :
                  /\ doc.footers[k].fields = <<"begin", "PAGE", "end">>
                  /\ OneBeginOneEnd(doc.footers[k].fields)
        /\ ~FootersWritten =>
              \A k \in 1..Len(doc.footers) : doc.footers[k].fields = <<>>

\* a served request with a table of contents on a template of two sections
C23_Witness ==
    /\ HasParas
    /\ pc = "done" /\ out.cause = "none"
    /\ req.inclure_table_matieres
    /\ FieldParas /= {}
    /\ Len(doc.footers) = 2
    /\ \A k \in 1..Len(doc.footers) : doc.footers[k].fields /= <<>>

\* the cover-page entries of the request, in array order
CoverEntries == {k \in 1..Len(req.sections) : req.sections[k].type = "page_garde"}
FirstCover ==
    req.sections[CHOOSE k \in CoverEntries : \A j \in CoverEntries : k <= j]

\* the paragraphs of the cover-page phase, without the leading page break
CoverParas ==
    LET IsCover(p) == p.by.ph = "cover"
        cs == SelectSeq(doc.paras, IsCover)
    IN IF cs /= <<>> /\ cs[1].kind = "page_break" THEN Tail(cs) ELSE cs

\* the title the first cover-page entry asks for: its own, else the
\* request's, nothing when that is missing or None
FirstCoverTitle ==
    LET t == IF FirstCover.titre /= Absent THEN FirstCover.titre[1]
             ELSE IF req.titre /= Absent THEN req.titre[1] ELSE None
    IN IF t = None THEN <<>> ELSE t

\* the cover-page phase is over and did not fail
CoverPhaseOver ==
    \/ pc \in {"toc", "sections", "footer", "complete", "save",
               "upload_emit", "upload"}
    \/ pc = "done" /\ out.cause \in {"none", "upload"}

\* C26: a request with one or more cover-page entries gets exactly one cover
\* block (two empty paragraphs, the title, the author, a page break), built
\* from the first cover-page entry in array order, and the section loop
\* writes nothing for any cover-page entry.
C26_CoverConsumedOnce ==
    (HasParas /\ CoverEntries /= {}) =>
        /\ CoverPhaseOver =>
              /\ Len(CoverParas) = 5
              /\ CoverParas[1].text = <<>> /\ CoverParas[2].text = <<>>
              /\ CoverParas[3].text = FirstCoverTitle
              /\ CoverParas[4].text = <<"Auteur: ", LETTER>>
              /\ CoverParas[5].kind = "page_break"
              /\ \A k \in 1..4 : CoverParas[k].kind /= "page_break"
        /\ \A k \in 1..Len(doc.paras) :
              doc.paras[k].by.ph = "section" => doc.paras[k].by.idx \notin CoverEntries

\* a served request with two cover-page entries of different titles and a
\* section between them
C26_Witness ==
    /\ HasParas
    /\ pc = "done" /\ out.cause = "none"
    /\ req.sections = <<SecCover2, SecContent, SecCover>>
    /\ req.titre = Some(<<LETTER, COLON, SP, ACCENT>>)
    /\ Len(CoverParas) = 5
    /\ WrittenBy("section") /= {}

\* the entries of the request that ask for a slide, in input order
SlideEntries ==
    LET AsksSlide(e) == e.type \in {"chapitre", "contenu"}
    IN SelectSeq(req.slides, AsksSlide)

\* every slide of the request was added and nothing failed since
SlidesBuilt ==
    \/ pc \in {"complete", "save", "upload_emit", "upload"}
    \/ pc = "done" /\ out.cause = "none"

\* the title of the request as the title slide was given it: the save step
\* replaces json_data['titre'] by its sanitized form
TitleGiven(t) ==
    IF pc \in {"complete", "save"} THEN t = req.titre[1]
    ELSE CleanTitle(t) = req.titre[1]

\* C27: when generate_pptx_from_json succeeds the presentation holds one
\* title slide first, with the title of the request and the name of the
\* user, then one slide per entry of type chapitre or contenu in input
\* order, then one final slide; entries of other types add no slide, so
\* there are 2 slides more than entries of those two types.
C27_SlideSequence ==
    (HasSlides /\ SlidesBuilt) =>
        LET n == Len(SlideEntries)
        IN /\ Len(doc.slides) = n + 2
           /\ doc.slides[1].layout = 1
           /\ TitleGiven(doc.slides[1].title)
           /\ doc.slides[1].shape1 = <<LETTER>>
           /\ \A k \in 1..n :
                 /\ doc.slides[k + 1].layout =
                        IF SlideEntries[k].type = "chapitre" THEN 3 ELSE 4
                 /\ doc.slides[k + 1].title = SlideEntries[k].titre
           /\ doc.slides[n + 2].layout \in {12, 13}
           /\ \A k \in 1..(n + 1) : doc.slides[k].layout \notin {12, 13}
           /\ \A k \in 2..(n + 2) : doc.slides[k].layout /= 1

\* a served request with an entry of type title between a content entry and
\* a chapter entry
C27_Witness ==
    /\ HasSlides
    /\ pc = "done" /\ out.cause = "none"
    /\ req.slides = <<SlideContent, SlideTitle, SlideChapter>>
    /\ Len(doc.slides) = 4

\* C28: the events a request delivers are monotone in done: behind an event
\* with done = true no event has done = false.
C28_DoneMonotone ==
    tool \in {GEN3, PPTX, EXCEL} =>
        \A a, b \in 1..Len(events) :
            (a < b /\ events[a].done) => events[b].done

\* the same up to the end of the rendering: until the file is saved no
\* event follows the one with done = true
C28_UntilSaved ==
    (tool \in {GEN3, PPTX, EXCEL} /\ pc \notin {"upload", "done"}) =>
        \A a, b \in 1..Len(events) :
            (a < b /\ events[a].done) => events[b].done

-----------------------------------------------------------------------------
(* Two requests in flight on one Tools instance.  An entry point runs      *)
(* without interruption from one await to the next; at an await whose      *)
(* status sink suspends, the other request may run.  Every collaborator    *)
(* succeeds.  The document a request builds is named by the request.       *)

Requests == {1, 2}

\* two titles that are cleaned to the same string, and a third
ConcurrentRequests ==
    {[titre |-> Some(t), confidentiality |-> c, language |-> "fr"] :
        t \in {<<LETTER>>, <<LETTER, COLON>>, <<LETTER, LETTER>>},
        c \in Confidentialities}

CInit ==
    /\ tool \in {GEN3, PPTX, EXCEL}
    /\ self = IF tool = PPTX THEN [prefix |-> "CS-"] ELSE <<>>
    /\ fs = {}
    /\ creq \in [Requests -> ConcurrentRequests]
    /\ cpc = [i \in Requests |-> "start"]
    /\ cloc = [i \in Requests |->
                  [template |-> <<>>, output_path |-> <<>>, uploaded |-> 0]]
    /\ pc = "idle"
    /\ req = <<>>
    /\ doc = <<>>
    /\ idx = 0
    /\ events = <<>>
    /\ out = <<>>
    /\ log = <<>>
    /\ HIdle

\* the call, up to the first await: emitter.emit("Initiating ...")
CStart(i) ==
    /\ cpc[i] = "start"
    /\ cpc' = [cpc EXCEPT ![i] = "open"]
    /\ UNCHANGED <<tool, self, fs, creq, cloc>>
    /\ UNCHANGED <<pc, req, doc, idx, events, out, log, hvars>>

\* from the first await to the one that opens the try block: the PPTX
\* entry point assigns self.prefix and loads the template it names
COpen(i) ==
    /\ cpc[i] = "open"
    /\ IF tool = PPTX
       THEN /\ self' = [self EXCEPT !.prefix = Prefix(creq[i].confidentiality)]
            /\ cloc' = [cloc EXCEPT ![i].template =
                            TemplatePath(creq[i].language, self'.prefix)]
       ELSE UNCHANGED <<self, cloc>>
    /\ cpc' = [cpc EXCEPT ![i] = "render"]
    /\ UNCHANGED <<tool, fs, creq>>
    /\ UNCHANGED <<pc, req, doc, idx, events, out, log, hvars>>

\* the loop over the entries, up to the await of the "complete" event
CRender(i) ==
    /\ cpc[i] = "render"
    /\ cpc' = [cpc EXCEPT ![i] = "save"]
    /\ UNCHANGED <<tool, self, fs, creq, cloc>>
    /\ UNCHANGED <<pc, req, doc, idx, events, out, log, hvars>>

\* the title cleaned, the document saved and opened again, up to the first
\* await of upload_file
CSave(i) ==
    /\ cpc[i] = "save"
    /\ LET output_path ==
               CASE tool = GEN3 -> DocxOutputPath(creq[i])
                 [] tool = PPTX -> PptxOutputPath(self, creq[i])
                 [] tool = EXCEL -> ExcelOutputPath(creq[i])
       IN /\ fs' = WriteFile(fs, output_path, i)
          /\ cloc' = [cloc EXCEPT ![i].output_path = output_path]
    /\ cpc' = [cpc EXCEPT ![i] = "upload"]
    /\ UNCHANGED <<tool, self, creq>>
    /\ UNCHANGED <<pc, req, doc, idx, events, out, log, hvars>>

\* upload_file hands the open file to the upload collaborator, which reads
\* what the path holds by then
CUpload(i) ==
    /\ cpc[i] = "upload"
    /\ LET f == CHOOSE x \in fs : x.path = cloc[i].output_path
       IN cloc' = [cloc EXCEPT ![i].uploaded = f.content]
    /\ cpc' = [cpc EXCEPT ![i] = "done"]
    /\ UNCHANGED <<tool, self, fs, creq>>
    /\ UNCHANGED <<pc, req, doc, idx, events, out, log, hvars>>

CNext ==
    \E i \in Requests :
        \/ CStart(i)
        \/ COpen(i)
        \/ CRender(i)
        \/ CSave(i)
        \/ CUpload(i)

SpecConcurrent == CInit /\ [][CNext]_vars

\* C5: the prefix in the name of the file a PPTX request saves is the one
\* of its own confidentiality, the one of the template it loaded.
C5_OwnPrefix ==
    \A i \in Requests :
        (tool = PPTX /\ cloc[i].output_path /= <<>>) =>
            /\ cloc[i].output_path[3] = Prefix(creq[i].confidentiality)
            /\ cloc[i].output_path[3] = cloc[i].template[3]

\* C6: two requests never save to the same path, and the file a request
\* hands to the upload holds the document this request built (stated for
\* the DOCX and the Excel generator, whose file names carry no prefix of
\* the instance).
C6_OwnFile ==
    tool \in {GEN3, EXCEL} =>
    /\ \A i, j \in Requests :
          (i /= j /\ cloc[i].output_path /= <<>> /\ cloc[j].output_path /= <<>>)
              => cloc[i].output_path /= cloc[j].output_path
    /\ \A i \in Requests : cpc[i] = "done" => cloc[i].uploaded = i
=============================================================================
